---------------------------- MODULE Spec2Model ----------------------------
(***************************************************************************)
(* Fit evaluation and search subsystem of service/mcp_server.py: the       *)
(* Pareto beam search over module activation states                        *)
(* (_optimize_fit_pareto) and the greedy hill-climb over module            *)
(* substitutions (_iterative_optimize_fit), with the helpers they call.    *)
(*                                                                         *)
(* Fits are Python objects, so the model keeps a heap of fit objects and   *)
(* refers to a fit by its index in the heap: deepcopy allocates a new      *)
(* cell, every write goes to the cell the code writes to.  The attribute   *)
(* engine (eos) is outside the repository; it is modelled by a small       *)
(* catalogue of items and integer arithmetic over their attributes.        *)
(***************************************************************************)
EXTENDS Integers, Sequences, FiniteSets, TLC

(* ------------------------------ bounds -------------------------------- *)
NumSlots == 2

MaxBeam == 3

MaxPasses == 3

MaxLimit == 4

MaxScore == 2

MaxCands == 3

MaxKm == 6

(* ------------------- engine constants (eos.const) --------------------- *)
OFFLINE == -1

ONLINE == 0

ACTIVE == 1

OVERHEATED == 2

FittingModuleState == OFFLINE..OVERHEATED

\* Python's None; an optional value x is the one-element sequence <<x>>.
None == << >>

Some(x) == << x >>

Val(opt) == opt[1]

NoItem == 0

\* F applied to the value of e: e is evaluated once, whatever F does with it
Let(e, F(_)) == CHOOSE r \in { F(x) : x \in { e } } : TRUE

(* --------------------------- item catalogue --------------------------- *)
\* What eos.db and the Module class report for each item of the catalogue.
\* slot: the slot classification; family: the variation family (0: the
\* item has no variations); group and
\* maxGroupActive: the group activation limit (0: none); fitsHull: the
\* result of Module.fits; evalFails: the engine raises while evaluating a
\* fit that holds the item; missile, lower, upper, chance: the item's
\* missileMaxRangeData; maxRange, falloff: the range attributes, None when
\* the item has none; effects: a fighter's damage per effect; the rest are
\* the attribute contributions.
BaseItem ==
    [typeName |-> "", slot |-> "high", family |-> 0, group |-> 0,
     maxGroupActive |-> 0, matchesQuery |-> FALSE, fitsHull |-> TRUE,
     evalFails |-> FALSE, isActive |-> TRUE, overheatable |-> TRUE,
     needsCharge |-> FALSE, cpu |-> 0, pg |-> 0, cal |-> 0,
     dps |-> 0, heat |-> 0, missile |-> FALSE, lower |-> 0, upper |-> 0,
     chance |-> 0, maxRange |-> None, falloff |-> None, effects |-> << >>,
     ehp |-> 0, tank |-> 0, sus |-> 0, speed |-> 0, align |-> 0]

With(r, s) == [k \in DOMAIN r |-> IF k \in DOMAIN s THEN s[k] ELSE r[k]]

ItemDB ==
    << With(BaseItem, [typeName |-> "Gun I", family |-> 1, group |-> 1,
                       needsCharge |-> TRUE, cpu |-> 2, pg |-> 1, dps |-> 4,
                       heat |-> 1, maxRange |-> Some(2000),
                       falloff |-> Some(1000)]),
       With(BaseItem, [typeName |-> "Gun II", family |-> 1, group |-> 1,
                       cpu |-> 4, pg |-> 2, dps |-> 6, heat |-> 2,
                       maxRange |-> Some(1000), falloff |-> Some(1000),
                       align |-> 1]),
       With(BaseItem, [typeName |-> "Launcher", family |-> 2, group |-> 2,
                       matchesQuery |-> TRUE, cpu |-> 3, pg |-> 1, dps |-> 5,
                       heat |-> 1, missile |-> TRUE, lower |-> 3000,
                       upper |-> 5000, chance |-> 500]),
       With(BaseItem, [typeName |-> "Capital Gun", family |-> 1, group |-> 1,
                       fitsHull |-> FALSE, cpu |-> 1, pg |-> 1, dps |-> 20]),
       With(BaseItem, [typeName |-> "Bastion", family |-> 3, group |-> 3,
                       maxGroupActive |-> 1, overheatable |-> FALSE,
                       cpu |-> 1, pg |-> 1, ehp |-> 4, tank |-> 4, sus |-> 3,
                       speed |-> -3]),
       With(BaseItem, [typeName |-> "Bastion II", family |-> 3, group |-> 3,
                       maxGroupActive |-> 1, overheatable |-> FALSE,
                       evalFails |-> TRUE, cpu |-> 1, pg |-> 1, tank |-> 9]),
       With(BaseItem, [typeName |-> "Armor Rig", slot |-> "rig",
                       family |-> 4, group |-> 4, isActive |-> FALSE,
                       overheatable |-> FALSE, cal |-> 2, ehp |-> 4,
                       speed |-> -2]),
       With(BaseItem, [typeName |-> "Speed Rig", slot |-> "rig",
                       family |-> 4, group |-> 4, matchesQuery |-> TRUE,
                       isActive |-> FALSE, overheatable |-> FALSE,
                       cal |-> 3, ehp |-> -2, speed |-> 3, align |-> -1]),
       With(BaseItem, [typeName |-> "Hobgoblin", slot |-> "drone",
                       family |-> 5, group |-> 5, dps |-> 2,
                       maxRange |-> Some(1000), falloff |-> Some(2000)]),
       With(BaseItem, [typeName |-> "Templar", slot |-> "fighter",
                       family |-> 6, group |-> 6, effects |-> <<3, 1>>,
                       maxRange |-> Some(4000)]),
       With(BaseItem, [typeName |-> "Salvage Rig", slot |-> "rig",
                       group |-> 7, isActive |-> FALSE,
                       overheatable |-> FALSE, cal |-> 1]) >>

Items == 1..Len(ItemDB)

\* Hulls: the three resource pools and the base attributes of the ship.
Hulls ==
    { [cpuOutput |-> 3, powerOutput |-> 4, upgradeCapacity |-> 4,
       ehp |-> 10, speed |-> 10, align |-> 5],
      [cpuOutput |-> 9, powerOutput |-> 9, upgradeCapacity |-> 1,
       ehp |-> 10, speed |-> 10, align |-> 5] }

\* The slot type of each position of fit.modules: fixed by the hull.
SlotLayout(i) == IF i = 2 THEN "rig" ELSE "high"

(* ------------------------------ modules ------------------------------- *)
\* Module.buildEmpty(slot): an empty slot keeps its slot type.
buildEmpty(slot) ==
    [item |-> NoItem, slot |-> slot, state |-> ONLINE, charge |-> 0]

isEmpty(mod) == mod.item = NoItem

\* Module.isValidState(state)
isValidState(mod, state) ==
    /\ state \in FittingModuleState
    /\ ~(state >= ACTIVE /\ ~ItemDB[mod.item].isActive)
    /\ ~(state = OVERHEATED /\ ~ItemDB[mod.item].overheatable)

\* Module.getMaxState(proposedState): the highest valid state not above the
\* proposed one (None: no limit).
getMaxState(mod, proposed) ==
    LET ok == {s \in FittingModuleState :
                  /\ isValidState(mod, s)
                  /\ (proposed = None \/ s <= Val(proposed))}
    IN  CHOOSE s \in ok : \A t \in ok : t <= s

\* Module.canHaveState(state): None for True, or the state the module may
\* have at most when its group's activation limit is exceeded in the
\* owning fit.
canHaveState(mods, i, state) ==
    LET it == ItemDB[mods[i].item]
        active == {j \in DOMAIN mods :
                     /\ ~isEmpty(mods[j])
                     /\ ItemDB[mods[j].item].group = it.group
                     /\ mods[j].state >= ACTIVE}
    IN  IF state <= OFFLINE \/ it.maxGroupActive = 0 THEN None
        ELSE IF Cardinality(active) > it.maxGroupActive THEN Some(ONLINE)
        ELSE None

RECURSIVE NormalizeFrom(_, _)
\* _normalize_states: the loop over fit.modules, from position i on.
NormalizeFrom(mods, i) ==
    IF i > Len(mods) THEN mods
    ELSE IF isEmpty(mods[i]) THEN NormalizeFrom(mods, i + 1)
    ELSE LET can == canHaveState(mods, i, mods[i].state)
             st  == IF can # None THEN Val(can)
                    ELSE IF ~isValidState(mods[i], mods[i].state) THEN ONLINE
                    ELSE mods[i].state
         IN  NormalizeFrom([mods EXCEPT ![i].state = st], i + 1)

\* no normalization
_normalize_states_skip(fit) == fit

_normalize_states(fit) == [fit EXCEPT !.modules = NormalizeFrom(fit.modules, 1)]

(* ------------------------ range damage model -------------------------- *)
Max(a, b) == IF a >= b THEN a ELSE b

Min(a, b) == IF a <= b THEN a ELSE b

\* eos.calc.calculateRangeFactor, in thousandths, as a step function of the
\* distance beyond optimal counted in falloffs (0.5 ^ (x ^ 2)).
calculateRangeFactor(optimal, falloff, distance) ==
    IF falloff > 0
    THEN IF distance > optimal + 3 * falloff THEN 0
         ELSE IF distance <= optimal THEN 1000
         ELSE IF distance <= optimal + falloff THEN 500
         ELSE IF distance <= optimal + 2 * falloff THEN 62
         ELSE 2
    ELSE IF distance <= optimal THEN 1000 ELSE 0

\* "getattr(item, name, None) or 0"
OrZero(attr) == IF attr = None THEN 0 ELSE Val(attr)

\* every source is taken for turret-like
get_distance_factor_turret(it, distance_m) ==
    IF distance_m = None THEN 1000
    ELSE Max(0, Min(1000, calculateRangeFactor(OrZero(it.maxRange),
                                               OrZero(it.falloff),
                                               Val(distance_m))))

\* the factor of a source without range data is 1
get_distance_factor_unranged(it, distance_m) ==
    IF distance_m = None THEN 1000
    ELSE IF it.maxRange = None /\ it.falloff = None THEN 1000
    ELSE Max(0, Min(1000, calculateRangeFactor(OrZero(it.maxRange),
                                               OrZero(it.falloff),
                                               Val(distance_m))))

\* get_distance_factor of _calc_applied_dps, in thousandths
get_distance_factor(it, distance_m) ==
    IF distance_m = None THEN 1000
    ELSE IF it.missile
    THEN IF Val(distance_m) <= it.lower THEN 1000
         ELSE IF Val(distance_m) <= it.upper THEN Max(0, Min(1000, it.chance))
         ELSE 0
    ELSE Max(0, Min(1000, calculateRangeFactor(OrZero(it.maxRange),
                                               OrZero(it.falloff),
                                               Val(distance_m))))

\* Module.getDps().total: the raw damage of one module in its state
ModDps(mod) ==
    LET it == ItemDB[mod.item]
    IN  IF it.needsCharge /\ mod.charge = 0 THEN 0
        ELSE it.dps + (IF mod.state = OVERHEATED THEN it.heat ELSE 0)

\* a module deals damage whatever its state
DealsDamage_any_state(mod) == ~isEmpty(mod) /\ ModDps(mod) > 0

\* Module.isDealingDamage on a module of fit.activeModulesIter()
DealsDamage(mod) ==
    ~isEmpty(mod) /\ mod.state >= ACTIVE /\ ModDps(mod) > 0

RECURSIVE ResistSum_unclamped(_, _)
\* the first four resistances summed as they are
ResistSum_unclamped(resists, i) ==
    IF i > 4 THEN 0
    ELSE (IF i <= Len(resists) THEN resists[i] ELSE 0)
         + ResistSum_unclamped(resists, i + 1)

RECURSIVE ResistSum(_, _)
\* the resistances (percent) truncated and padded to four, each clamped
\* to [0, 99], summed
ResistSum(resists, i) ==
    IF i > 4 THEN 0
    ELSE (IF i <= Len(resists) THEN Max(0, Min(99, resists[i])) ELSE 0)
         + ResistSum(resists, i + 1)

RECURSIVE RangedDps(_, _, _)
\* the loop of _calc_applied_dps over fit.activeModulesIter(), from
\* position i on, in thousandths
RangedDps(mods, i, distance_m) ==
    IF i > Len(mods) THEN 0
    ELSE (IF DealsDamage(mods[i])
          THEN ModDps(mods[i])
               * get_distance_factor(ItemDB[mods[i].item], distance_m)
          ELSE 0)
         + RangedDps(mods, i + 1, distance_m)

RECURSIVE SeqSum(_, _)
SeqSum(s, i) == IF i > Len(s) THEN 0 ELSE s[i] + SeqSum(s, i + 1)

\* Drone.getDps().total, and the sum of Fighter.getDpsPerEffect().values()
DroneDps(drone) == ItemDB[drone.item].dps

FighterDps(fighter) == SeqSum(ItemDB[fighter.item].effects, 1)

RECURSIVE DroneRangedDps(_, _, _)
\* the loop over fit.activeDronesIter(): the drones with active members
\* that deal damage
DroneRangedDps(drones, i, distance_m) ==
    IF i > Len(drones) THEN 0
    ELSE (IF drones[i].active /\ DroneDps(drones[i]) > 0
          THEN DroneDps(drones[i])
               * get_distance_factor(ItemDB[drones[i].item], distance_m)
          ELSE 0)
         + DroneRangedDps(drones, i + 1, distance_m)

RECURSIVE FighterRangedDps(_, _, _)
\* the loop over fit.activeFightersIter()
FighterRangedDps(fighters, i, distance_m) ==
    IF i > Len(fighters) THEN 0
    ELSE (IF fighters[i].active /\ FighterDps(fighters[i]) > 0
          THEN FighterDps(fighters[i])
               * get_distance_factor(ItemDB[fighters[i].item], distance_m)
          ELSE 0)
         + FighterRangedDps(fighters, i + 1, distance_m)

\* lines 423-426: the distance in metres, None when there is none
distance_m_of(distance_km) ==
    IF distance_km = None THEN None
    ELSE Some(Max(0, Val(distance_km) * 1000))

\* ranged_dps of _calc_applied_dps after its three loops, in thousandths
ranged_dps_of(fit, distance_m) ==
    RangedDps(fit.modules, 1, distance_m)
    + DroneRangedDps(fit.drones, 1, distance_m)
    + FighterRangedDps(fit.fighters, 1, distance_m)

\* _calc_applied_dps in units of 1 / 400000 dps: the range-adjusted sum (in
\* thousandths) times 1 - mean resistance (in 1 / 400).
\* ("target_resists or (0, 0, 0, 0)": None and the empty list alike)
_calc_applied_dps(fit, distance_km, target_resists) ==
    LET resists == IF target_resists = None THEN <<0, 0, 0, 0>>
                   ELSE target_resists
    IN  ranged_dps_of(fit, distance_m_of(distance_km))
        * (400 - ResistSum(resists, 1))

(* ----------------------------- evaluation ----------------------------- *)
\* A module's attribute effects apply from ONLINE on for a passive item and
\* from ACTIVE on for an activatable one.
Applies(mod) ==
    /\ ~isEmpty(mod)
    /\ mod.state >= (IF ItemDB[mod.item].isActive THEN ACTIVE ELSE ONLINE)

RECURSIVE EffectSum(_, _, _)
\* fit.calculateModifiedAttributes: the sum of attribute k over the modules
\* whose effects apply
EffectSum(mods, i, k) ==
    IF i > Len(mods) THEN 0
    ELSE (IF Applies(mods[i]) THEN ItemDB[mods[i].item][k] ELSE 0)
         + EffectSum(mods, i + 1, k)

RECURSIVE UsedSum(_, _, _)
\* fit.cpuUsed, fit.pgUsed: resource k of the modules that are at least
\* online; fit.calibrationUsed: the calibration of every fitted module
UsedSum(mods, i, k) ==
    IF i > Len(mods) THEN 0
    ELSE (IF ~isEmpty(mods[i]) /\ (mods[i].state >= ONLINE \/ k = "cal")
          THEN ItemDB[mods[i].item][k] ELSE 0)
         + UsedSum(mods, i + 1, k)

RECURSIVE TotalDps(_, _)
\* the modules' part of fit.getTotalDps().total
TotalDps(mods, i) ==
    IF i > Len(mods) THEN 0
    ELSE (IF DealsDamage(mods[i]) THEN ModDps(mods[i]) ELSE 0)
         + TotalDps(mods, i + 1)

RECURSIVE ActiveDps(_, _, _)
\* the part of the active drones (fighter FALSE) or fighters (TRUE) in
\* fit.getTotalDps().total
ActiveDps(srcs, i, fighter) ==
    IF i > Len(srcs) THEN 0
    ELSE (IF srcs[i].active
          THEN (IF fighter THEN FighterDps(srcs[i]) ELSE DroneDps(srcs[i]))
          ELSE 0)
         + ActiveDps(srcs, i + 1, fighter)

RECURSIVE HeatSpeed(_, _)
\* the overheating bonus of propulsion modules to fit.maxSpeed
HeatSpeed(mods, i) ==
    IF i > Len(mods) THEN 0
    ELSE (IF ~isEmpty(mods[i]) /\ mods[i].state = OVERHEATED
             /\ ItemDB[mods[i].item].speed > 0
          THEN ItemDB[mods[i].item].heat ELSE 0)
         + HeatSpeed(mods, i + 1)

\* The engine raises while recalculating a fit that holds such an item.
EvalRaises(fit) ==
    \E i \in DOMAIN fit.modules :
        ~isEmpty(fit.modules[i]) /\ ItemDB[fit.modules[i].item].evalFails

\* fit_valid without the calibration headroom
fit_valid_cpu_pg(cpu_headroom, powergrid_headroom, calibration_headroom) ==
    cpu_headroom >= 0 /\ powergrid_headroom >= 0

\* line 372
fit_valid(cpu_headroom, powergrid_headroom, calibration_headroom) ==
    cpu_headroom >= 0 /\ powergrid_headroom >= 0 /\ calibration_headroom >= 0

\* The record _fit_snapshot returns for a fit whose states are normalized.
Snapshot(fit, range_km, target_resists) ==
    LET mods == fit.modules
        cpu_headroom == fit.ship.cpuOutput - UsedSum(mods, 1, "cpu")
        powergrid_headroom == fit.ship.powerOutput - UsedSum(mods, 1, "pg")
        calibration_headroom == fit.ship.upgradeCapacity - UsedSum(mods, 1, "cal")
    IN  [name |-> fit.name,
         dps |-> TotalDps(mods, 1) + ActiveDps(fit.drones, 1, FALSE)
                 + ActiveDps(fit.fighters, 1, TRUE),
         dps_at_range |-> _calc_applied_dps(fit, range_km,
                             IF target_resists = None THEN <<0, 0, 0, 0>>
                             ELSE target_resists),
         ehp |-> fit.ship.ehp + EffectSum(mods, 1, "ehp"),
         tank |-> [total |-> EffectSum(mods, 1, "tank")],
         sustainable_tank |-> [total |-> EffectSum(mods, 1, "sus")],
         mobility |-> [max_speed |-> Max(0, fit.ship.speed + EffectSum(mods, 1, "speed")
                                            + HeatSpeed(mods, 1)),
                       align_time |-> fit.ship.align + EffectSum(mods, 1, "align")],
         resources |-> [cpu_headroom |-> cpu_headroom,
                        powergrid_headroom |-> powergrid_headroom,
                        calibration_headroom |-> calibration_headroom],
         fit_valid |-> fit_valid(cpu_headroom, powergrid_headroom,
                                 calibration_headroom)]

\* a recalculation that takes every running module one state down
_recalculate_fit_lowering(fit) ==
    [fit EXCEPT !.modules =
        [i \in DOMAIN @ |-> IF ~isEmpty(@[i]) /\ @[i].state >= ACTIVE
                            THEN [@[i] EXCEPT !.state = @ - 1] ELSE @[i]]]

\* _recalculate_fit: the fit object after the engine recalculated it.
_recalculate_fit(fit) == _normalize_states(fit)

\* _fit_snapshot on the fit object at heap cell r: the heap afterwards (the
\* fit's states are normalized in place), whether the engine raised, and
\* the snapshot.
_fit_snapshot(h, r, range_km, target_resists) ==
    Let(_recalculate_fit(h[r]), LAMBDA fit :
        [heap |-> [h EXCEPT ![r] = fit],
         raised |-> EvalRaises(fit),
         snapshot |-> Snapshot(fit, range_km, target_resists)])

(* ------------------------- scoring, dominance ------------------------- *)
_score_from_snapshot(snapshot) ==
    [dps |-> snapshot.dps,
     dps_at_range |-> snapshot.dps_at_range,
     ehp |-> snapshot.ehp,
     tank_total |-> snapshot.tank.total,
     sustainable_tank_total |-> snapshot.sustainable_tank.total,
     max_speed |-> snapshot.mobility.max_speed,
     align_time |-> snapshot.mobility.align_time]

maximize_keys ==
    <<"dps", "dps_at_range", "ehp", "tank_total", "sustainable_tank_total",
      "max_speed">>

minimize_keys == <<"align_time">>

\* a plain comparison: a is nowhere worse than b
_dominates_or_equal(a, b) ==
    /\ \A i \in DOMAIN maximize_keys : a[maximize_keys[i]] >= b[maximize_keys[i]]
    /\ \A i \in DOMAIN minimize_keys : a[minimize_keys[i]] <= b[minimize_keys[i]]

RECURSIVE KeyLoop(_, _, _, _, _, _)
\* one "for key in keys" loop of _dominates, from position i on: it breaks
\* with a_better_or_equal False at the first key on which a is worse, and
\* sets a_strict_better at each key on which a is better
KeyLoop(a, b, keys, minimize, i, flags) ==
    IF i > Len(keys) THEN flags
    ELSE IF (IF minimize THEN a[keys[i]] > b[keys[i]] ELSE a[keys[i]] < b[keys[i]])
    THEN [flags EXCEPT !.a_better_or_equal = FALSE]
    ELSE KeyLoop(a, b, keys, minimize, i + 1,
                 IF (IF minimize THEN a[keys[i]] < b[keys[i]]
                     ELSE a[keys[i]] > b[keys[i]])
                 THEN [flags EXCEPT !.a_strict_better = TRUE]
                 ELSE flags)

\* _dominates: the loop over the maximize keys, then, unless it broke, the
\* loop over the minimize keys
_dominates(a, b) ==
    Let(KeyLoop(a, b, maximize_keys, FALSE, 1,
                [a_better_or_equal |-> TRUE, a_strict_better |-> FALSE]),
        LAMBDA f1 :
    Let(IF f1.a_better_or_equal
        THEN KeyLoop(a, b, minimize_keys, TRUE, 1, f1) ELSE f1,
        LAMBDA f2 : f2.a_better_or_equal /\ f2.a_strict_better))

\* the subsequence of s at the positions that satisfy Keep
RECURSIVE SelectIdx(_, _, _)
SelectIdx(s, i, keep) ==
    IF i > Len(s) THEN << >>
    ELSE (IF i \in keep THEN << s[i] >> ELSE << >>) \o SelectIdx(s, i + 1, keep)

\* a prune that drops nothing
_pareto_prune_keep_all(candidates) == candidates

\* _pareto_prune: a candidate is kept unless another object of the list
\* ("other is candidate" compares identities, here positions) dominates it.
_pareto_prune(candidates) ==
    SelectIdx(candidates, 1,
        {i \in DOMAIN candidates :
            ~\E j \in DOMAIN candidates :
                j # i /\ _dominates(candidates[j].score, candidates[i].score)})

(* ------------------------------- heap --------------------------------- *)
\* a copy that is the object itself
deepcopy_alias(h, r) == [heap |-> h, ref |-> r]

\* copy.deepcopy(fit): a new fit object; Fit.__deepcopy__ names the copy
\* "<name> copy" (the name is the number of " copy" suffixes).
deepcopy(h, r) ==
    [heap |-> Append(h, [h[r] EXCEPT !.name = @ + 1]), ref |-> Len(h) + 1]

(* ------------------------------- state -------------------------------- *)
VARIABLES
    args,               \* the arguments of the call
    pc,                 \* the position in the running function
    heap,               \* the fit objects; heap[base_fit] is the caller's
    frontier,           \* _optimize_fit_pareto: frontier
    expanded,           \* _optimize_fit_pareto: expanded
    module_positions,   \* _optimize_fit_pareto: module_positions
    pos_i,              \* index of pos in module_positions
    working_fit,        \* _iterative_optimize_fit: working_fit (a heap cell)
    history,            \* _iterative_optimize_fit: history
    passes,             \* _iterative_optimize_fit: passes
    current,            \* current_snapshot and current_score
    improved_this_pass, \* _iterative_optimize_fit: improved_this_pass
    slot_index,         \* the position the pass is at (from 1)
    candidates,         \* the candidates of the slot
    cand_i,             \* index of item in candidates
    best_local,         \* best_local: None or (score, item, snapshot)
    trials,             \* the trials of the slot so far: item, fit object
                        \* and outcome (the branch the loop body took)
    error,              \* the exception the call raised, None if none
    result              \* the value returned, None before the return

paretoVars == <<frontier, expanded, module_positions, pos_i>>

iterVars ==
    <<working_fit, history, passes, current, improved_this_pass, slot_index,
      candidates, cand_i, best_local, trials>>

vars == <<args, pc, heap, paretoVars, iterVars, error, result>>

\* the caller's fit object
base_fit == 1

(* ------------------------ _optimize_fit_pareto ------------------------ *)
\* evaluate(fit_obj) of _optimize_fit_pareto: names the fit after the base
\* fit, takes its snapshot and builds the candidate.
pareto_evaluate(h, r, base_name) ==
    Let(_fit_snapshot([h EXCEPT ![r].name = base_name], r,
                      args.range_km, args.target_resists), LAMBDA fs :
        [heap |-> fs.heap,
         cand |-> [fit |-> r, snapshot |-> fs.snapshot,
                   score |-> _score_from_snapshot(fs.snapshot)]])

\* every state, permitted or not
StatesOf_all(mod) == <<OFFLINE, ONLINE, ACTIVE, OVERHEATED>>

\* [s for s in FittingModuleState if s <= max_state and mod.isValidState(s)]
StatesOf(mod) ==
    LET max_state == getMaxState(mod, None)
        all == <<OFFLINE, ONLINE, ACTIVE, OVERHEATED>>
    IN  SelectIdx(all, 1, {i \in DOMAIN all :
                             all[i] <= max_state /\ isValidState(mod, all[i])})

RECURSIVE ExpandStates(_, _, _, _, _, _)
\* the loop "for state in states" for one frontier candidate: acc.heap and
\* acc.expanded are threaded through the iterations.
ExpandStates(acc, parent, pos, states, k, base_name) ==
    IF k > Len(states) THEN acc
    ELSE IF states[k] = acc.heap[parent].modules[pos].state
    THEN ExpandStates(acc, parent, pos, states, k + 1, base_name)
    ELSE Let(deepcopy(acc.heap, parent), LAMBDA cp :
         Let(pareto_evaluate(
                 [cp.heap EXCEPT ![cp.ref].modules[pos].state = states[k]],
                 cp.ref, base_name), LAMBDA ev :
         Let([heap |-> ev.heap, expanded |-> Append(acc.expanded, ev.cand)],
             LAMBDA acc2 :
                 ExpandStates(acc2, parent, pos, states, k + 1, base_name))))

RECURSIVE ExpandFrontier(_, _, _, _, _)
\* the loop "for candidate in frontier"
ExpandFrontier(acc, front, ci, pos, base_name) ==
    IF ci > Len(front) THEN acc
    ELSE Let(StatesOf(acc.heap[front[ci].fit].modules[pos]), LAMBDA states :
         Let(ExpandStates(acc, front[ci].fit, pos, states, 1, base_name),
             LAMBDA acc2 : ExpandFrontier(acc2, front, ci + 1, pos, base_name)))

\* the soft valid-only filter: the valid candidates when there is one,
\* else the list as it is
ValidOnly(cands) ==
    SelectIdx(cands, 1, {i \in DOMAIN cands : cands[i].snapshot.fit_valid})

\* the valid-only filter without its fallback
HardFilter(cands) ==
    IF args.require_fit_valid THEN ValidOnly(cands) ELSE cands

\* no filter at all
SoftFilter_none(cands) == cands

SoftFilter(cands) ==
    IF args.require_fit_valid /\ ValidOnly(cands) # << >>
    THEN ValidOnly(cands) ELSE cands

\* the sort key of frontier.sort
SortKey(c) ==
    <<c.score.dps_at_range, c.score.ehp, c.score.sustainable_tank_total,
      c.score.max_speed, -c.score.align_time>>

RECURSIVE TupleLess(_, _, _)
\* Python's tuple comparison a < b, from position i on
TupleLess(a, b, i) ==
    IF i > Len(a) THEN FALSE
    ELSE IF a[i] < b[i] THEN TRUE
    ELSE IF a[i] > b[i] THEN FALSE
    ELSE TupleLess(a, b, i + 1)

RECURSIVE InsertDesc(_, _, _)
\* x inserted after every element of the sorted list whose key is not less
InsertDesc(sorted, x, i) ==
    IF i > Len(sorted) THEN Append(sorted, x)
    ELSE IF TupleLess(SortKey(sorted[i]), SortKey(x), 1)
    THEN SubSeq(sorted, 1, i - 1) \o << x >> \o SubSeq(sorted, i, Len(sorted))
    ELSE InsertDesc(sorted, x, i + 1)

\* the list left in the order the prune gave it
SortDesc_unsorted(s, i, acc) == s

RECURSIVE SortDesc(_, _, _)
\* list.sort(key=..., reverse=True): stable, descending
SortDesc(s, i, acc) ==
    IF i > Len(s) THEN acc ELSE SortDesc(s, i + 1, InsertDesc(acc, s[i], 1))

\* the slice s[:n] of Python, for any integer n
SliceTo(s, n) ==
    IF n >= 0 THEN SubSeq(s, 1, Min(n, Len(s)))
    ELSE SubSeq(s, 1, Max(0, Len(s) + n))

NonEmptyPositions(fit) ==
    SelectIdx([i \in DOMAIN fit.modules |-> i], 1,
              {i \in DOMAIN fit.modules : ~isEmpty(fit.modules[i])})

\* lines 1065-1082: the initial frontier and the occupied positions
ParetoStart ==
    /\ pc = "pareto_start"
    /\ \E base_name \in { heap[base_fit].name } :
       \E cp \in { deepcopy(heap, base_fit) } :
       \E ev \in { pareto_evaluate(cp.heap, cp.ref, base_name) } :
       \E positions \in { NonEmptyPositions(ev.heap[base_fit]) } :
           /\ heap' = ev.heap
           /\ frontier' = << ev.cand >>
           /\ module_positions' = positions
           /\ pc' = IF positions = << >> THEN "pareto_final" ELSE "pareto_expand"
    /\ pos_i' = 1
    /\ UNCHANGED <<args, expanded, iterVars, error, result>>

\* lines 1085-1096: the frontier and one new candidate per other state
ParetoExpand ==
    /\ pc = "pareto_expand"
    /\ \E acc \in { ExpandFrontier([heap |-> heap, expanded |-> frontier],
                                    frontier, 1, module_positions[pos_i],
                                    heap[base_fit].name) } :
           /\ heap' = acc.heap
           /\ expanded' = acc.expanded
    /\ pc' = "pareto_filter"
    /\ UNCHANGED <<args, frontier, module_positions, pos_i, iterVars, error, result>>

\* lines 1097-1100: the soft valid-only filter of a slot step
ParetoFilter ==
    /\ pc = "pareto_filter"
    /\ expanded' = SoftFilter(expanded)
    /\ pc' = "pareto_prune"
    /\ UNCHANGED <<args, heap, frontier, module_positions, pos_i, iterVars, error, result>>

\* line 1101
ParetoPrune ==
    /\ pc = "pareto_prune"
    /\ frontier' = _pareto_prune(expanded)
    /\ pc' = "pareto_sort"
    /\ UNCHANGED <<args, heap, expanded, module_positions, pos_i, iterVars, error, result>>

\* lines 1102-1109: sort, truncate to beam_width, next position
ParetoSortTruncate ==
    /\ pc = "pareto_sort"
    /\ frontier' = SliceTo(SortDesc(frontier, 1, << >>), args.beam_width)
    /\ pos_i' = pos_i + 1
    /\ pc' = IF pos_i = Len(module_positions)
             THEN "pareto_final" ELSE "pareto_expand"
    /\ UNCHANGED <<args, heap, expanded, module_positions, iterVars, error, result>>

\* line 1111: the final prune
ParetoFinalPrune ==
    /\ pc = "pareto_final"
    /\ frontier' = _pareto_prune(frontier)
    /\ pc' = "pareto_return"
    /\ UNCHANGED <<args, heap, expanded, module_positions, pos_i, iterVars, error, result>>

\* lines 1112-1116: the final soft filter and the return
ParetoReturn ==
    /\ pc = "pareto_return"
    /\ result' = Some(SoftFilter(frontier))
    /\ pc' = "done"
    /\ UNCHANGED <<args, heap, paretoVars, iterVars, error>>

(* ---------------------- substitution, candidates --------------------- *)
\* eos.db.getItem(module_ref): the item, NoItem when the reference is unknown
getItem(module_ref) == IF module_ref \in Items THEN module_ref ELSE NoItem

\* eos.db.getItem(charge_ref) and Module.isValidCharge: charge 1 is the one
\* charge of the catalogue, valid for the items that take charges
ChargeKnown(charge_ref) == charge_ref = Some(1)

isValidCharge(item, charge_ref) == ItemDB[item].needsCharge

\* Module(item): a new module, online and unloaded
Module(item) ==
    [item |-> item, slot |-> ItemDB[item].slot, state |-> ONLINE, charge |-> 0]

\* a substitution that inserts the new module before the old one
_replace_module_inserts(h, r, idx, module_ref, charge_ref, state) ==
    [heap |-> [h EXCEPT ![r].modules =
                  SubSeq(@, 1, idx - 1)
                  \o << [Module(Val(module_ref)) EXCEPT !.state =
                            getMaxState(Module(Val(module_ref)), Some(ACTIVE))] >>
                  \o SubSeq(@, idx, Len(@))],
     raised |-> None]

\* _replace_module_in_fit on the fit object at heap cell r: the heap
\* afterwards and the ValueError raised (None: none).  module_ref,
\* charge_ref and state are optional values.
_replace_module_in_fit(h, r, idx, module_ref, charge_ref, state) ==
    LET fit == h[r]
        Raise(hp, msg) == [heap |-> hp, raised |-> Some(msg)]
        Done(hp) == [heap |-> hp, raised |-> None]
    IN  IF idx < 1 \/ idx > Len(fit.modules)
        THEN Raise(h, "slot_index is out of bounds")
        ELSE
        LET target_slot == fit.modules[idx].slot
        IN  IF module_ref = None
            THEN Done([h EXCEPT ![r].modules[idx] = buildEmpty(target_slot)])
            ELSE
            LET item == getItem(Val(module_ref))
            IN  IF item = NoItem THEN Raise(h, "unknown module")
                ELSE
                LET new_module == Module(item)
                    h1 == [h EXCEPT ![r].modules[idx] = new_module]
                IN  IF new_module.slot # target_slot
                    THEN Raise(h, "module slot does not match target slot")
                    ELSE IF ~ItemDB[item].fitsHull
                    THEN Raise(h1, "module cannot be fitted in this slot on current hull")
                    ELSE IF charge_ref # None /\ ~ChargeKnown(charge_ref)
                    THEN Raise(h1, "unknown charge")
                    ELSE IF charge_ref # None /\ ~isValidCharge(item, charge_ref)
                    THEN Raise(h1, "charge is invalid for this module")
                    ELSE
                    LET h2 == IF charge_ref = None THEN h1
                              ELSE [h1 EXCEPT ![r].modules[idx].charge = Val(charge_ref)]
                    IN  IF state = None
                        THEN Done([h2 EXCEPT ![r].modules[idx].state =
                                      getMaxState(new_module, Some(ACTIVE))])
                        ELSE IF ~isValidState(new_module, Val(state))
                        THEN Raise(h2, "requested module state is invalid")
                        ELSE Done([h2 EXCEPT ![r].modules[idx].state = Val(state)])

\* eos.db.getVariations([item.ID], groupIDs=[item.groupID]): the items of
\* the item's variation family, in catalogue order
getVariations(item) ==
    SelectIdx([i \in Items |-> i], 1,
              {i \in Items : /\ ItemDB[item].family # 0
                             /\ ItemDB[i].family = ItemDB[item].family})

\* eos.db.searchItems(query): the items the text matches
searchItems(query) ==
    SelectIdx([i \in Items |-> i], 1, {i \in Items : ItemDB[i].matchesQuery})

\* every item found is taken
AddItems_unfiltered(cands, found, i, target_slot) ==
    cands \o SubSeq(found, i, Len(found))

RECURSIVE AddItems(_, _, _, _)
\* add_item for each item of found, from position i on: an item is taken
\* once, and only when its slot classification is the target slot's
AddItems(cands, found, i, target_slot) ==
    IF i > Len(found) THEN cands
    ELSE LET item == found[i]
             seen == {cands[k] : k \in DOMAIN cands}
         IN  Let(IF item \in seen \/ ItemDB[item].slot # target_slot
                 THEN cands ELSE Append(cands, item),
                 LAMBDA added : AddItems(added, found, i + 1, target_slot))

\* the search without the fallback to the current item
_search_slot_candidates_no_fallback(fit, idx, query, limit) ==
    LET cur == fit.modules[idx]
        c1 == IF ~isEmpty(cur)
              THEN AddItems(<< >>, getVariations(cur.item), 1, cur.slot)
              ELSE << >>
        c2 == IF query # None
              THEN AddItems(c1, searchItems(Val(query)), 1, cur.slot)
              ELSE c1
    IN  IF limit <= 0 THEN << >> ELSE SubSeq(c2, 1, Min(limit, Len(c2)))

\* _search_slot_candidates(fit, slot_index, query, limit,
\* include_variations=True), for a slot_index within bounds
_search_slot_candidates(fit, idx, query, limit) ==
    LET cur == fit.modules[idx]
        target_slot == cur.slot
    IN  Let(IF ~isEmpty(cur)
            THEN AddItems(<< >>, getVariations(cur.item), 1, target_slot)
            ELSE << >>, LAMBDA c1 :
        Let(IF query # None
            THEN AddItems(c1, searchItems(Val(query)), 1, target_slot)
            ELSE c1, LAMBDA c2 :
        Let(IF c2 = << >> /\ ~isEmpty(cur)
            THEN AddItems(c2, << cur.item >>, 1, target_slot)
            ELSE c2, LAMBDA c3 :
                IF limit <= 0 THEN << >> ELSE SliceTo(c3, limit))))

Objectives ==
    {"dps", "dps_at_range", "ehp", "tank", "sustainable_tank", "speed",
     "align_time"}

\* an unknown objective scores 0 instead of raising
_objective_value_default(snapshot, objective) ==
    [raised |-> FALSE,
     value |-> CASE objective = "dps" -> snapshot.dps
                 [] objective = "ehp" -> snapshot.ehp
                 [] objective = "tank" -> snapshot.tank.total
                 [] objective = "speed" -> snapshot.mobility.max_speed
                 [] objective = "align_time" -> snapshot.mobility.align_time
                 [] OTHER -> 0]

\* _objective_value: the value, or "unsupported objective" raised
_objective_value(snapshot, objective) ==
    IF objective \notin Objectives THEN [raised |-> TRUE, value |-> 0]
    ELSE [raised |-> FALSE,
          value |->
            CASE objective = "dps" -> snapshot.dps
              [] objective = "dps_at_range" -> snapshot.dps_at_range
              [] objective = "ehp" -> snapshot.ehp
              [] objective = "tank" -> snapshot.tank.total
              [] objective = "sustainable_tank" -> snapshot.sustainable_tank.total
              [] objective = "speed" -> snapshot.mobility.max_speed
              [] objective = "align_time" -> snapshot.mobility.align_time]

(* ---------------------- _iterative_optimize_fit ----------------------- *)
\* lines 965-966: the direction is checked first
IterCheckDirection ==
    /\ pc = "iter_start"
    /\ IF args.direction \notin {"max", "min"}
       THEN /\ error' = Some("direction must be 'max' or 'min'")
            /\ pc' = "raised"
       ELSE /\ error' = error
            /\ pc' = "iter_setup"
    /\ UNCHANGED <<args, heap, paretoVars, iterVars, result>>

\* lines 968-981: the working copy, its snapshot and its score
IterSetup ==
    /\ pc = "iter_setup"
    /\ \E cp \in { deepcopy(heap, base_fit) } :
       \E fs \in { _fit_snapshot(cp.heap, cp.ref, args.range_km,
                                  args.target_resists) } :
       \E ov \in { _objective_value(fs.snapshot, args.objective) } :
           /\ heap' = fs.heap
           /\ working_fit' = cp.ref
           /\ current' = [snapshot |-> fs.snapshot, score |-> ov.value]
           /\ IF ov.raised
              THEN /\ error' = Some("unsupported objective")
                   /\ pc' = "raised"
              ELSE /\ error' = error
                   /\ pc' = "iter_while"
    /\ history' = << >>
    /\ passes' = 0
    /\ UNCHANGED <<args, paretoVars, improved_this_pass, slot_index,
                   candidates, cand_i, best_local, trials, result>>

\* a loop head that does not look at max_passes
IterWhile_unbounded ==
    /\ pc = "iter_while"
    /\ passes' = passes + 1
    /\ improved_this_pass' = FALSE
    /\ slot_index' = 1
    /\ pc' = "iter_slot"
    /\ UNCHANGED <<args, heap, paretoVars, working_fit, history, current,
                   candidates, cand_i, best_local, trials, error, result>>

\* lines 983-985: the head of a pass
IterWhile ==
    /\ pc = "iter_while"
    /\ IF passes < args.max_passes
       THEN /\ passes' = passes + 1
            /\ improved_this_pass' = FALSE
            /\ slot_index' = 1
            /\ pc' = "iter_slot"
       ELSE /\ pc' = "iter_return"
            /\ UNCHANGED <<passes, improved_this_pass, slot_index>>
    /\ UNCHANGED <<args, heap, paretoVars, working_fit, history, current,
                   candidates, cand_i, best_local, trials, error, result>>

\* lines 987-998: the next slot of the pass and its candidates
IterSlot ==
    /\ pc = "iter_slot"
    /\ LET mods == heap[working_fit].modules
       IN  IF slot_index > Len(mods)
           THEN /\ pc' = "iter_pass_end"
                /\ UNCHANGED <<slot_index, candidates, cand_i, best_local, trials>>
           ELSE IF isEmpty(mods[slot_index])
           THEN /\ pc' = "iter_slot"
                /\ slot_index' = slot_index + 1
                /\ UNCHANGED <<candidates, cand_i, best_local, trials>>
           ELSE /\ pc' = "iter_trial"
                /\ candidates' = _search_slot_candidates(heap[working_fit],
                                     slot_index, args.query, args.candidate_limit)
                /\ cand_i' = 1
                /\ best_local' = None
                /\ trials' = << >>
                /\ UNCHANGED slot_index
    /\ UNCHANGED <<args, heap, paretoVars, working_fit, history, passes,
                   current, improved_this_pass, error, result>>

\* a trial is never skipped for its validity
SkipInvalid_never(snapshot) == FALSE

\* lines 1009-1010: a trial whose snapshot is invalid is skipped when
\* require_fit_valid is set
SkipInvalid(snapshot) == args.require_fit_valid /\ ~snapshot.fit_valid

\* the later of two equally good trials is taken
TrackBest_last(best, mine) ==
    IF best = None THEN Some(mine)
    ELSE IF args.direction = "max" /\ mine.score >= Val(best).score THEN Some(mine)
    ELSE IF args.direction = "min" /\ mine.score <= Val(best).score THEN Some(mine)
    ELSE best

\* lines 1013-1020: best_local after a trial that was scored
TrackBest(best, mine) ==
    IF best = None THEN Some(mine)
    ELSE IF args.direction = "max" /\ mine.score > Val(best).score THEN Some(mine)
    ELSE IF args.direction = "min" /\ mine.score < Val(best).score THEN Some(mine)
    ELSE best

\* the comparison of line 1025 without its strictness
Improved_or_equal(best_score, current_score) ==
    IF args.direction = "max" THEN best_score >= current_score
    ELSE best_score <= current_score

\* line 1025: improved
Improved(best_score, current_score) ==
    IF args.direction = "max" THEN best_score > current_score
    ELSE best_score < current_score

\* lines 999-1020: one trial substitution
IterTrial ==
    /\ pc = "iter_trial"
    /\ cand_i <= Len(candidates)
    /\ LET item == candidates[cand_i]
           mod == heap[working_fit].modules[slot_index]
           Log(fit, outcome) ==
               trials' = Append(trials, [item |-> item, fit |-> fit,
                                         outcome |-> outcome])
       IN  IF ItemDB[item].typeName = ItemDB[mod.item].typeName
           THEN /\ Log(0, "same_name")
                /\ UNCHANGED <<heap, best_local, error, pc>>
           ELSE
           \E cp \in { deepcopy(heap, working_fit) } :
           \E rp \in { _replace_module_in_fit(cp.heap, cp.ref, slot_index,
                                               Some(item), None, None) } :
           \E fs \in { _fit_snapshot(rp.heap, cp.ref, args.range_km,
                                      args.target_resists) } :
           \E ov \in { _objective_value(fs.snapshot, args.objective) } :
               IF rp.raised # None
               THEN /\ heap' = rp.heap
                    /\ Log(cp.ref, "raised")
                    /\ UNCHANGED <<best_local, error, pc>>
               ELSE IF fs.raised
               THEN /\ heap' = fs.heap
                    /\ Log(cp.ref, "raised")
                    /\ UNCHANGED <<best_local, error, pc>>
               ELSE IF SkipInvalid(fs.snapshot)
               THEN /\ heap' = fs.heap
                    /\ Log(cp.ref, "invalid")
                    /\ UNCHANGED <<best_local, error, pc>>
               ELSE IF ov.raised
               THEN /\ heap' = fs.heap
                    /\ Log(cp.ref, "objective")
                    /\ error' = Some("unsupported objective")
                    /\ pc' = "raised"
                    /\ UNCHANGED best_local
               ELSE /\ heap' = fs.heap
                    /\ Log(cp.ref, "scored")
                    /\ best_local' = TrackBest(best_local,
                          [score |-> ov.value, item |-> item,
                           snapshot |-> fs.snapshot])
                    /\ UNCHANGED <<error, pc>>
    /\ cand_i' = cand_i + 1
    /\ UNCHANGED <<args, paretoVars, working_fit, history, passes, current,
                   improved_this_pass, slot_index, candidates, result>>

\* lines 1022-1040: after the last candidate, the best trial is committed
\* when it improves on the current score
IterCommit ==
    /\ pc = "iter_trial"
    /\ cand_i > Len(candidates)
    /\ IF best_local = None
       THEN /\ pc' = "iter_slot"
            /\ UNCHANGED <<heap, current, improved_this_pass, history, error>>
       ELSE IF ~Improved(Val(best_local).score, current.score)
       THEN /\ pc' = "iter_slot"
            /\ UNCHANGED <<heap, current, improved_this_pass, history, error>>
       ELSE \E best \in { Val(best_local) } :
            \E rp \in { _replace_module_in_fit(heap, working_fit, slot_index,
                                                Some(best.item), None, None) } :
                /\ heap' = rp.heap
                /\ IF rp.raised # None
                   THEN /\ error' = rp.raised
                        /\ pc' = "raised"
                        /\ UNCHANGED <<current, improved_this_pass, history>>
                   ELSE /\ current' = [snapshot |-> best.snapshot,
                                       score |-> best.score]
                        /\ improved_this_pass' = TRUE
                        /\ history' = Append(history,
                              [pass |-> passes, slot_index |-> slot_index,
                               slot |-> rp.heap[working_fit].modules[slot_index].slot,
                               module_name |-> ItemDB[best.item].typeName,
                               objective |-> args.objective,
                               score |-> best.score])
                        /\ error' = error
                        /\ pc' = "iter_slot"
    /\ slot_index' = slot_index + 1
    /\ UNCHANGED <<args, paretoVars, working_fit, passes, candidates, cand_i,
                   best_local, trials, result>>

\* the end of a pass without the break of line 1043
IterPassEnd_no_break ==
    /\ pc = "iter_pass_end"
    /\ pc' = "iter_while"
    /\ UNCHANGED <<args, heap, paretoVars, iterVars, error, result>>

\* lines 1042-1043: a pass without improvement ends the search
IterPassEnd ==
    /\ pc = "iter_pass_end"
    /\ pc' = IF improved_this_pass THEN "iter_while" ELSE "iter_return"
    /\ UNCHANGED <<args, heap, paretoVars, iterVars, error, result>>

\* lines 1045-1053
IterReturn ==
    /\ pc = "iter_return"
    /\ result' = Some([fit |-> working_fit, snapshot |-> current.snapshot,
                       objective |-> args.objective,
                       direction |-> args.direction, score |-> current.score,
                       passes |-> passes, changes |-> history])
    /\ pc' = "done"
    /\ UNCHANGED <<args, heap, paretoVars, iterVars, error>>

(* ------------------------------ inputs -------------------------------- *)
\* the modules a caller's fit may hold at position i: an empty slot, or an
\* item of the slot's type that fits the hull, evaluates and has variations
SlotChoices(i) ==
    { buildEmpty(SlotLayout(i)) } \cup
    { [item |-> it, slot |-> SlotLayout(i), state |-> st, charge |-> ch] :
        it \in {x \in Items : /\ ItemDB[x].slot = SlotLayout(i)
                              /\ ItemDB[x].fitsHull
                              /\ ~ItemDB[x].evalFails
                              /\ ~ItemDB[x].matchesQuery
                              /\ ItemDB[x].family # 0},
        st \in FittingModuleState, ch \in {0, 1} }

\* a module as _import_eft_text builds it (lines 288-301): offline or in
\* its highest valid state up to ACTIVE, loaded when it takes charges
ValidModule(mod) ==
    \/ isEmpty(mod)
    \/ /\ mod.state \in {OFFLINE, getMaxState(mod, Some(ACTIVE))}
       /\ (mod.charge = 1 <=> ItemDB[mod.item].needsCharge)

ModuleLists ==
    { ms \in [1..NumSlots -> UNION {SlotChoices(i) : i \in 1..NumSlots}] :
        \A i \in 1..NumSlots : ms[i] \in SlotChoices(i) /\ ValidModule(ms[i]) }

BaseFits ==
    { [name |-> 0, ship |-> hull, modules |-> ms, drones |-> << >>,
       fighters |-> << >>] :
        hull \in Hulls, ms \in ModuleLists }

Contexts ==
    { [range_km |-> None, target_resists |-> None],
      [range_km |-> Some(3), target_resists |-> <<50, 50, 50, 50>>] }

NoIterArgs ==
    [objective |-> "", direction |-> "", max_passes |-> 0,
     candidate_limit |-> 0, query |-> None]

ParetoArgs ==
    { [mode |-> "pareto", range_km |-> c.range_km,
       target_resists |-> c.target_resists, beam_width |-> bw,
       require_fit_valid |-> rfv] @@ NoIterArgs :
        c \in Contexts, bw \in -1..MaxBeam, rfv \in BOOLEAN }

\* the (objective, direction) pairs of the calls, with an unsupported
\* objective and an unsupported direction
Goals ==
    { <<"dps", "max">>, <<"ehp", "max">>, <<"speed", "max">>,
      <<"align_time", "min">>, <<"tank", "min">>,
      <<"volley", "max">>, <<"dps", "up">>, <<"volley", "up">> }

IterArgs ==
    { [mode |-> "iter", range_km |-> c.range_km,
       target_resists |-> c.target_resists, beam_width |-> 0,
       require_fit_valid |-> rfv, objective |-> g[1], direction |-> g[2],
       max_passes |-> mp, candidate_limit |-> cl, query |-> q] :
        c \in {x \in Contexts : x.range_km = None}, rfv \in BOOLEAN,
        g \in Goals, mp \in -1..MaxPasses, cl \in {1, MaxLimit},
        q \in {None, Some("rig")} }

InitWith(argset) ==
    /\ args \in argset
    /\ pc = IF args.mode = "pareto" THEN "pareto_start" ELSE "iter_start"
    /\ heap \in { << f >> : f \in BaseFits }
    /\ frontier = << >>
    /\ expanded = << >>
    /\ module_positions = << >>
    /\ pos_i = 1
    /\ working_fit = 0
    /\ history = << >>
    /\ passes = 0
    /\ current = [snapshot |-> None, score |-> 0]
    /\ improved_this_pass = FALSE
    /\ slot_index = 0
    /\ candidates = << >>
    /\ cand_i = 0
    /\ best_local = None
    /\ trials = << >>
    /\ error = None
    /\ result = None

Init == InitWith(ParetoArgs \cup IterArgs)

NextPareto ==
    \/ ParetoStart
    \/ ParetoExpand
    \/ ParetoFilter
    \/ ParetoPrune
    \/ ParetoSortTruncate
    \/ ParetoFinalPrune
    \/ ParetoReturn

NextIter ==
    \/ IterCheckDirection
    \/ IterSetup
    \/ IterWhile
    \/ IterSlot
    \/ IterTrial
    \/ IterCommit
    \/ IterPassEnd
    \/ IterReturn

Next == NextPareto \/ NextIter

Spec == Init /\ [][Next]_vars

\* one call of _optimize_fit_pareto
SpecPareto == InitWith(ParetoArgs) /\ [][NextPareto]_vars

\* one call of _iterative_optimize_fit
SpecIter == InitWith(IterArgs) /\ [][NextIter]_vars

\* one call of _iterative_optimize_fit that is not suspended: the call is
\* synchronous and single-threaded, so a step that can be taken is taken
SpecIterFair == SpecIter /\ WF_vars(NextIter)

(* --------------------- calls of single functions ---------------------- *)
\* the state before a call of one function with the arguments args
InitCall(argset) ==
    /\ args \in argset
    /\ pc = "call"
    /\ heap = IF "fit" \in DOMAIN args THEN << args.fit >> ELSE << >>
    /\ frontier = << >>
    /\ expanded = << >>
    /\ module_positions = << >>
    /\ pos_i = 1
    /\ working_fit = 0
    /\ history = << >>
    /\ passes = 0
    /\ current = [snapshot |-> None, score |-> 0]
    /\ improved_this_pass = FALSE
    /\ slot_index = 0
    /\ candidates = << >>
    /\ cand_i = 0
    /\ best_local = None
    /\ trials = << >>
    /\ error = None
    /\ result = None

ScoreKeys ==
    {"dps", "dps_at_range", "ehp", "tank_total", "sustainable_tank_total",
     "max_speed", "align_time"}

\* score vectors: every key at 1 but for at most two keys, which take any
\* value up to MaxScore
ScoreVectors ==
    { [k \in ScoreKeys |-> IF k = k1 THEN v1 ELSE IF k = k2 THEN v2 ELSE 1] :
        k1 \in ScoreKeys, k2 \in ScoreKeys, v1 \in 0..MaxScore, v2 \in 0..MaxScore }

DominatesArgs(vectors) ==
    { [mode |-> "_dominates", a |-> a, b |-> b] :
        a \in vectors, b \in vectors }

\* _dominates(a, b) called
CallDominates ==
    /\ pc = "call" /\ args.mode = "_dominates"
    /\ result' = Some(_dominates(args.a, args.b))
    /\ pc' = "done"
    /\ UNCHANGED <<args, heap, paretoVars, iterVars, error>>

SpecDominates == InitCall(DominatesArgs(ScoreVectors)) /\ [][CallDominates]_vars

\* the score vectors of the candidate lists: dps and align_time vary
PruneScores ==
    { [k \in ScoreKeys |-> IF k = "dps" THEN v1
                           ELSE IF k = "align_time" THEN v2 ELSE 1] :
        v1 \in 0..MaxScore, v2 \in 0..MaxScore }

\* candidate lists of up to max candidates, each its own object
PruneArgs(max) ==
    { [mode |-> "_pareto_prune",
       candidates |-> [i \in DOMAIN f |-> [fit |-> i, score |-> f[i]]]] :
        f \in UNION { [1..n -> PruneScores] : n \in 0..max } }

\* _pareto_prune(candidates) called
CallParetoPrune ==
    /\ pc = "call" /\ args.mode = "_pareto_prune"
    /\ result' = Some(_pareto_prune(args.candidates))
    /\ pc' = "done"
    /\ UNCHANGED <<args, heap, paretoVars, iterVars, error>>

SpecPrune == InitCall(PruneArgs(MaxCands)) /\ [][CallParetoPrune]_vars

\* the modules a fit may hold at any position, in any state: an empty
\* slot, or a module that fits the hull, loaded only if it takes charges
AnyModules ==
    { buildEmpty("high"), buildEmpty("rig") } \cup
    { [item |-> it, slot |-> ItemDB[it].slot, state |-> st, charge |-> ch] :
        it \in {x \in Items : ItemDB[x].slot \in {"high", "rig"}
                              /\ ItemDB[x].fitsHull},
        st \in FittingModuleState, ch \in {0, 1} }

\* the fits of slots modules
EvalFits(slots) ==
    { [name |-> 0, ship |-> hull, modules |-> ms, drones |-> << >>,
       fighters |-> << >>] :
        hull \in Hulls,
        ms \in { m \in [1..slots -> AnyModules] :
                   \A i \in 1..slots :
                      m[i].charge = 1 =>
                         (~isEmpty(m[i]) /\ ItemDB[m[i].item].needsCharge) } }

SnapshotArgs(fits) ==
    { [mode |-> "_fit_snapshot", fit |-> f, range_km |-> c.range_km,
       target_resists |-> c.target_resists] :
        f \in fits, c \in Contexts }

\* _fit_snapshot(fit, range_km, target_resists) called on the caller's fit
CallFitSnapshot ==
    /\ pc = "call" /\ args.mode = "_fit_snapshot"
    /\ \E fs \in { _fit_snapshot(heap, base_fit, args.range_km,
                                  args.target_resists) } :
           /\ heap' = fs.heap
           /\ IF fs.raised
              THEN /\ error' = Some("engine error")
                   /\ pc' = "raised"
                   /\ UNCHANGED result
              ELSE /\ result' = Some(fs.snapshot)
                   /\ pc' = "done"
                   /\ UNCHANGED error
    /\ UNCHANGED <<args, paretoVars, iterVars>>

\* _fit_snapshot called once more on the same fit object with the same
\* arguments; result then holds the two snapshots in the order returned
CallFitSnapshotAgain ==
    /\ pc = "done" /\ args.mode = "_fit_snapshot"
    /\ \E fs \in { _fit_snapshot(heap, base_fit, args.range_km,
                                  args.target_resists) } :
           /\ heap' = fs.heap
           /\ IF fs.raised
              THEN /\ error' = Some("engine error")
                   /\ pc' = "raised"
                   /\ UNCHANGED result
              ELSE /\ result' = Append(result, fs.snapshot)
                   /\ pc' = "done_again"
                   /\ UNCHANGED error
    /\ UNCHANGED <<args, paretoVars, iterVars>>

SpecSnapshot == InitCall(SnapshotArgs(EvalFits(NumSlots))) /\ [][CallFitSnapshot]_vars

\* two evaluations in a row of the same fit
SpecTwice ==
    /\ InitCall(SnapshotArgs(EvalFits(NumSlots)))
    /\ [][CallFitSnapshot \/ CallFitSnapshotAgain]_vars

\* the searches and the evaluation of any fit
SpecStates ==
    /\ InitWith(ParetoArgs \cup IterArgs) \/ InitCall(SnapshotArgs(EvalFits(NumSlots)))
    /\ [][NextPareto \/ NextIter \/ CallFitSnapshot]_vars

\* the modules of the fits that are searched for candidates: an empty
\* slot, or any item that fits the hull, as Module(item) builds it
SearchModules ==
    { buildEmpty("high"), buildEmpty("rig") } \cup
    { Module(it) : it \in {x \in Items : ItemDB[x].slot \in {"high", "rig"}
                                         /\ ItemDB[x].fitsHull} }

SearchFits(slots) ==
    { [name |-> 0, ship |-> CHOOSE h \in Hulls : h.upgradeCapacity = 4,
       modules |-> ms, drones |-> << >>, fighters |-> << >>] :
        ms \in [1..slots -> SearchModules] }

\* slot_index from below the first slot to above the last, with and
\* without a query, limit from below zero to max
SearchArgs(fits, max) ==
    { [mode |-> "_search_slot_candidates", fit |-> f, slot_index |-> idx,
       query |-> q, limit |-> l] :
        f \in fits, idx \in 0..(NumSlots + 1), q \in {None, Some("rig")},
        l \in -1..max }

\* _search_slot_candidates(fit, slot_index, query, limit) called
CallSearchSlotCandidates ==
    /\ pc = "call" /\ args.mode = "_search_slot_candidates"
    /\ IF args.slot_index < 1 \/ args.slot_index > Len(heap[base_fit].modules)
       THEN /\ error' = Some("slot_index is out of bounds")
            /\ pc' = "raised"
            /\ UNCHANGED result
       ELSE /\ result' = Some(_search_slot_candidates(heap[base_fit],
                               args.slot_index, args.query, args.limit))
            /\ pc' = "done"
            /\ UNCHANGED error
    /\ UNCHANGED <<args, heap, paretoVars, iterVars>>

SpecSearch ==
    /\ InitCall(SearchArgs(SearchFits(NumSlots), MaxLimit))
    /\ [][CallSearchSlotCandidates]_vars

\* the arguments of the tool fit_apply_slot_candidate on the session fit:
\* slot_index from below the first slot to above the last; module_name
\* none, any item of the catalogue or a name eos.db does not know;
\* charge_name none, the known charge or an unknown one; state none or
\* any activation state
ApplyArgs(fits) ==
    { [mode |-> "fit_apply_slot_candidate", fit |-> f, slot_index |-> idx,
       module_name |-> m, charge_name |-> c, state |-> st] :
        f \in fits, idx \in 0..(NumSlots + 1),
        m \in { None } \cup { Some(x) : x \in 1..(Len(ItemDB) + 1) },
        c \in { None, Some(1), Some(2) },
        st \in { None } \cup { Some(x) : x \in FittingModuleState } }

\* lines 1585-1607: the tool fit_apply_slot_candidate.  _resolve_fit hands
\* out the session's fit object itself (lines 1129-1130, 1142-1149), and
\* _replace_module_in_fit works on that object; an error it raises leaves
\* the handler at once, otherwise the fit is evaluated and returned.
fit_apply_slot_candidate ==
    /\ pc = "call" /\ args.mode = "fit_apply_slot_candidate"
    /\ \E rp \in { _replace_module_in_fit(heap, base_fit, args.slot_index,
                        args.module_name, args.charge_name, args.state) } :
           IF rp.raised # None
           THEN /\ heap' = rp.heap
                /\ error' = rp.raised
                /\ pc' = "raised"
                /\ UNCHANGED result
           ELSE \E fs \in { _fit_snapshot(rp.heap, base_fit, None, None) } :
                   /\ heap' = fs.heap
                   /\ IF fs.raised
                      THEN /\ error' = Some("engine error")
                           /\ pc' = "raised"
                           /\ UNCHANGED result
                      ELSE /\ result' = Some(fs.snapshot)
                           /\ pc' = "done"
                           /\ UNCHANGED error
    /\ UNCHANGED <<args, paretoVars, iterVars>>

SpecApply ==
    /\ InitCall(ApplyArgs(SearchFits(NumSlots)))
    /\ [][fit_apply_slot_candidate]_vars

\* the distances of the calls, in km: none, and from below zero to MaxKm
Distances == { None } \cup { Some(d) : d \in -1..MaxKm }

\* damage sources for get_distance_factor: missile-like ones with their
\* range data, and turret-like ones with or without range attributes
RangeItems ==
    { With(BaseItem, [missile |-> TRUE, lower |-> lo, upper |-> up,
                      chance |-> ch, maxRange |-> mr]) :
        lo \in {0, 3000}, up \in {3000, 5000},
        ch \in {-200, 0, 500, 1000, 1500}, mr \in {None, Some(9000)} }
    \cup
    { With(BaseItem, [maxRange |-> mr, falloff |-> fo]) :
        mr \in {None, Some(0), Some(2000)}, fo \in {None, Some(0), Some(1000)} }

FactorArgs ==
    { [mode |-> "get_distance_factor", item |-> it, distance_km |-> d] :
        it \in RangeItems, d \in Distances }

\* the modules of the fits whose damage is applied
DpsModules ==
    { buildEmpty("high") } \cup
    { [item |-> ms[1], slot |-> "high", state |-> ms[2], charge |-> ms[3]] :
        ms \in { <<1, ACTIVE, 1>>, <<1, ACTIVE, 0>>, <<1, ONLINE, 1>>,
                 <<2, ACTIVE, 0>>, <<2, OFFLINE, 0>>, <<3, ACTIVE, 0>>,
                 <<3, OVERHEATED, 0>>, <<5, ACTIVE, 0>> } }

\* no drone (fighter), an active one or an idle one
Wings(item) ==
    { << >>, << [item |-> item, active |-> TRUE] >>,
      << [item |-> item, active |-> FALSE] >> }

\* the fits of slots modules, with or without drones and fighters
DpsFits(slots) ==
    { [name |-> 0, ship |-> CHOOSE h \in Hulls : h.upgradeCapacity = 4,
       modules |-> ms, drones |-> dr, fighters |-> fi] :
        ms \in [1..slots -> DpsModules], dr \in Wings(9), fi \in Wings(10) }

ResistValues == {-10, 0, 50, 99, 120}

\* resistance vectors (percent) of up to five values, all alike but one
ResistVectors ==
    { [i \in 1..n |-> IF i = k THEN v ELSE w] :
        n \in 0..5, k \in 1..5, v \in ResistValues, w \in ResistValues }

AppliedArgs(fits) ==
    { [mode |-> "_calc_applied_dps", fit |-> f, distance_km |-> d,
       target_resists |-> r] :
        f \in fits, d \in Distances,
        r \in { <<0, 0, 0, 0>>, <<50, 50, 50, 50>> } }
    \cup
    { [mode |-> "_calc_applied_dps", fit |-> f, distance_km |-> d,
       target_resists |-> r] :
        f \in { x \in fits :
                  /\ x.drones = << >> /\ x.fighters = << >>
                  /\ \A i \in DOMAIN x.modules : x.modules[i] = x.modules[1] },
        d \in { None, Some(3) }, r \in ResistVectors }

\* get_distance_factor(item) inside a call with distance args.distance_km
CallDistanceFactor ==
    /\ pc = "call" /\ args.mode = "get_distance_factor"
    /\ result' = Some(get_distance_factor(args.item,
                                          distance_m_of(args.distance_km)))
    /\ pc' = "done"
    /\ UNCHANGED <<args, heap, paretoVars, iterVars, error>>

\* _calc_applied_dps(fit, distance_km, target_resists) called
CallAppliedDps ==
    /\ pc = "call" /\ args.mode = "_calc_applied_dps"
    /\ result' = Some(_calc_applied_dps(heap[base_fit], args.distance_km,
                                        args.target_resists))
    /\ pc' = "done"
    /\ UNCHANGED <<args, heap, paretoVars, iterVars, error>>

SpecDps ==
    /\ InitCall(FactorArgs \cup AppliedArgs(DpsFits(NumSlots)))
    /\ [][CallDistanceFactor \/ CallAppliedDps]_vars

(* ------------------------------ claims -------------------------------- *)
IsPareto == args.mode = "pareto"

IsIter == args.mode = "iter"

\* a's score vector is at least as good as b's on every key and differs
\* from it in the good direction on one
ScoreDominates(a, b) ==
    /\ a.dps >= b.dps /\ a.dps_at_range >= b.dps_at_range /\ a.ehp >= b.ehp
    /\ a.tank_total >= b.tank_total
    /\ a.sustainable_tank_total >= b.sustainable_tank_total
    /\ a.max_speed >= b.max_speed /\ a.align_time <= b.align_time
    /\ a # b

\* C1: the list _optimize_fit_pareto returns holds no two distinct members
\* A and B such that A's score vector dominates B's.
C1_NonDomination ==
    (IsPareto /\ result # None) =>
        \A i, j \in DOMAIN Val(result) :
            i # j => ~ScoreDominates(Val(result)[i].score, Val(result)[j].score)

\* a returned list with members of different score vectors
C1_Witness ==
    /\ IsPareto /\ result # None
    /\ \E i, j \in DOMAIN Val(result) : Val(result)[i].score # Val(result)[j].score

\* the frontier is the one a finished slot step left
AfterSlotStep ==
    /\ IsPareto /\ pos_i > 1
    /\ pc \in {"pareto_expand", "pareto_filter", "pareto_prune", "pareto_final"}

\* C2: after the processing of each occupied slot the frontier holds at
\* most beam_width candidates, for every beam_width the caller can pass
\* (a width below zero admitting no candidate at all).
C2_BeamBound == AfterSlotStep => Len(frontier) <= Max(args.beam_width, 0)

\* the score of the base fit at the start of the hill-climb
InitialScore ==
    _objective_value(Snapshot(_recalculate_fit(heap[base_fit]), args.range_km,
                              args.target_resists), args.objective).value

StrictlyBetter(a, b) ==
    \/ args.direction = "max" /\ a > b
    \/ args.direction = "min" /\ a < b

IterRunning == IsIter /\ pc \notin {"iter_start", "iter_setup", "raised"}

\* C3: each entry of the change log is strictly better than the entry
\* before it, the first is strictly better than the initial score of the
\* base fit, and the returned score is never worse than the initial score.
C3_MonotonicLog ==
    IterRunning =>
        /\ \A k \in DOMAIN history :
              StrictlyBetter(history[k].score,
                             IF k = 1 THEN InitialScore ELSE history[k - 1].score)
        /\ result # None => ~StrictlyBetter(InitialScore, Val(result).score)

\* a returned change log of two entries
C3_Witness == IsIter /\ result # None /\ Len(Val(result).changes) >= 2

\* C4: a pass that commits no substitution is the last one: every pass
\* before the current one has an entry in the change log, and the passes
\* count returned is the number of the last pass executed.
C4_EarlyStop ==
    IterRunning =>
        /\ \A p \in 1..(passes - 1) : \E k \in DOMAIN history : history[k].pass = p
        /\ result # None => Val(result).passes = passes

\* the search returned after a pass without a substitution, with passes left
C4_Witness ==
    /\ IsIter /\ result # None
    /\ Val(result).passes >= 1
    /\ Val(result).passes < args.max_passes
    /\ \A k \in DOMAIN history : history[k].pass # Val(result).passes

\* C5: no step of either search changes the caller's fit: its slot
\* contents, module states, charges and name stay as they were.
C5_BaseFitUntouched == [][heap'[base_fit] = heap[base_fit]]_vars

\* a finished search that made copies whose modules differ from the base's
C5_Witness ==
    /\ pc = "done"
    /\ \E r \in DOMAIN heap : heap[r].modules # heap[base_fit].modules
    /\ \E r \in DOMAIN heap : heap[r].name # heap[base_fit].name

\* the fit objects of the valid candidates of a list
ValidFits(cands) ==
    {cands[i].fit : i \in {k \in DOMAIN cands : cands[k].snapshot.fit_valid}}

\* after is before restricted to its valid candidates when require_fit_valid
\* is set and there is one, and before itself otherwise
SoftFiltered(before, after) ==
    /\ IF args.require_fit_valid /\ ValidFits(before) # {}
       THEN /\ {after[i].fit : i \in DOMAIN after} = ValidFits(before)
            /\ Len(after) = Cardinality(ValidFits(before))
       ELSE after = before
    /\ before # << >> => after # << >>

\* C6: at each slot step and at the final step, with require_fit_valid
\* set, the candidates are restricted to the valid ones only when there is
\* one; otherwise the unfiltered list is kept, so the filter never empties
\* a non-empty list.
C6_SoftFilter ==
    [][/\ pc = "pareto_filter" => SoftFiltered(expanded, expanded')
       /\ pc = "pareto_return" => SoftFiltered(frontier, Val(result'))]_vars

\* the filter of a slot step fell back to a list of invalid candidates
C6_Witness ==
    /\ IsPareto /\ pc = "pareto_prune" /\ args.require_fit_valid
    /\ expanded # << >> /\ ValidFits(expanded) = {}

\* the trials of the current slot step have all been made
AtCommit == IsIter /\ pc = "iter_trial" /\ cand_i > Len(candidates)

\* the trials of the slot step whose substitution and evaluation succeeded
Evaluated == {k \in DOMAIN trials : trials[k].outcome \in {"invalid", "scored"}}

\* the validity of the fit a trial built, as its snapshot reports it
TrialValid(k) ==
    Snapshot(heap[trials[k].fit], args.range_km, args.target_resists).fit_valid

AllTrialsInvalid ==
    /\ args.require_fit_valid
    /\ Evaluated # {}
    /\ \A k \in Evaluated : ~TrialValid(k)

\* C7 as stated: in hill-climbing, when require_fit_valid would eliminate
\* every trial of a slot step, the filter is relaxed for that step and the
\* unfiltered trials are the ones compared against the current score.
C7_Original == (AtCommit /\ AllTrialsInvalid) => best_local # None

C7_Discarded ==
    (IsIter /\ pc = "iter_trial" /\ args.require_fit_valid) =>
        /\ \A k \in Evaluated :
              ~TrialValid(k) =>
                  (best_local = None \/ Val(best_local).item # trials[k].item)
        /\ AllTrialsInvalid => best_local = None

C7_NothingCommitted ==
    (AtCommit /\ AllTrialsInvalid) =>
        /\ heap' = heap /\ current' = current /\ history' = history
        /\ improved_this_pass' = improved_this_pass
        /\ pc' = "iter_slot"

\* C7: the soft fallback exists in beam search only. In hill-climbing with
\* require_fit_valid set, a trial whose snapshot is invalid is discarded
\* and never becomes the best trial of its slot step; when every evaluated
\* trial of a slot step is invalid, nothing is committed at that step: the
\* working fit, the current score and the change log stay as they were.
C7_NoFallbackInHillClimb == []C7_Discarded /\ [][C7_NothingCommitted]_vars

\* a slot step whose evaluated trials were all invalid has ended
C7_Witness ==
    /\ IsIter /\ pc = "iter_slot" /\ AllTrialsInvalid
    /\ Len(trials) = Len(candidates)

\* no fit of the search, the base fit included, has a valid snapshot
NothingValid ==
    \A r \in DOMAIN heap :
        ~Snapshot(_recalculate_fit(heap[r]), args.range_km,
                  args.target_resists).fit_valid

\* C8: with require_fit_valid set, an invalid base fit and no valid
\* candidate, both searches still return a result: the beam search a
\* non-empty list, the hill-climb a fit with its snapshot and score.
C8_StillReturns ==
    (pc = "done" /\ args.require_fit_valid /\ NothingValid) =>
        /\ result # None
        /\ IsPareto => Val(result) # << >>
        /\ IsIter => /\ Val(result).fit = working_fit
                     /\ Val(result).snapshot = current.snapshot
                     /\ Val(result).snapshot # None

\* the state change of a trial whose substitution or evaluation raised
TrialRaised ==
    /\ IsIter /\ pc = "iter_trial"
    /\ Len(trials') = Len(trials) + 1
    /\ trials'[Len(trials')].outcome = "raised"

C9_OnlyThatTrial ==
    TrialRaised =>
        /\ working_fit' = working_fit
        /\ heap'[working_fit] = heap[working_fit]
        /\ best_local' = best_local /\ current' = current
        /\ history' = history /\ error' = error
        /\ candidates' = candidates /\ cand_i' = cand_i + 1
        /\ pc' = "iter_trial"

C9_SearchGoesOn ==
    IsIter =>
        /\ AtCommit => Len(trials) = Len(candidates)
        /\ pc = "raised" => (passes = 0 /\ trials = << >>)
        /\ pc = "done" => result # None

\* C9: a trial whose substitution or evaluation fails is excluded alone:
\* the working fit, the best trial so far, the current score and the
\* change log are unchanged, the remaining candidates are tried and the
\* search goes on to return.
C9_FailedTrialIsolated == []C9_SearchGoesOn /\ [][C9_OnlyThatTrial]_vars

\* the search returned from a slot step in which a trial raised and a
\* later one was scored
C9_Witness ==
    /\ IsIter /\ pc = "done" /\ result # None
    /\ \E i, j \in DOMAIN trials :
          i < j /\ trials[i].outcome = "raised" /\ trials[j].outcome = "scored"

BadDirection == args.direction \notin {"max", "min"}

BadObjective == args.objective \notin Objectives

\* C10: an unsupported objective makes the hill-climb raise 'unsupported
\* objective' before any pass or trial, and nothing catches it; a direction
\* other than 'max' or 'min' is rejected before any copy or evaluation.
C10_RejectedEarly ==
    IsIter =>
        /\ (BadDirection /\ pc # "iter_start") =>
              /\ pc = "raised"
              /\ error = Some("direction must be 'max' or 'min'")
              /\ Len(heap) = 1 /\ working_fit = 0 /\ current.snapshot = None
              /\ result = None
        /\ (BadObjective /\ ~BadDirection /\ pc \notin {"iter_start", "iter_setup"}) =>
              /\ pc = "raised"
              /\ error = Some("unsupported objective")
              /\ passes = 0 /\ trials = << >> /\ candidates = << >>
              /\ history = << >> /\ Len(heap) = 2
              /\ result = None
        /\ (~BadObjective /\ ~BadDirection) => error = None

\* the hill-climb raised on an unsupported objective
C10_Witness ==
    /\ IsIter /\ pc = "raised" /\ BadObjective
    /\ error = Some("unsupported objective")

\* the objective value of fit f once evaluated
ScoreOf(f) ==
    _objective_value(Snapshot(_recalculate_fit(f), args.range_km,
                              args.target_resists), args.objective).value

\* the fit f with the module at idx replaced by item, evaluated: the fit,
\* whether the substitution or the evaluation failed, and the snapshot
Replaced(f, idx, item) ==
    LET rp == _replace_module_in_fit(<< f >>, 1, idx, Some(item), None, None)
        g == _recalculate_fit(rp.heap[1])
    IN  [fit |-> g,
         failed |-> (rp.raised # None \/ EvalRaises(g)),
         snapshot |-> Snapshot(g, args.range_km, args.target_resists)]

\* the replacement candidates of the slot at idx of f: the candidates of
\* another type whose substitution and evaluation succeed and, when
\* filtered, whose snapshot passes require_fit_valid
Replacements(f, idx, filtered) ==
    LET cands == _search_slot_candidates(f, idx, args.query, args.candidate_limit)
    IN  {k \in DOMAIN cands :
            /\ ItemDB[cands[k]].typeName # ItemDB[f.modules[idx].item].typeName
            /\ ~Replaced(f, idx, cands[k]).failed
            /\ filtered =>
                  (args.require_fit_valid =>
                      Replaced(f, idx, cands[k]).snapshot.fit_valid)}

ReplacementScore(f, idx, k) ==
    LET cands == _search_slot_candidates(f, idx, args.query, args.candidate_limit)
    IN  _objective_value(Replaced(f, idx, cands[k]).snapshot, args.objective).value

\* the replacement candidates of the slot with a strictly higher objective
\* value than f (direction 'max')
Better(f, idx, filtered) ==
    {k \in Replacements(f, idx, filtered) : ReplacementScore(f, idx, k) > ScoreOf(f)}

\* the slots of f that have a strictly better replacement candidate
ImprovableSlots(f, filtered) ==
    {idx \in DOMAIN f.modules :
        ~isEmpty(f.modules[idx]) /\ Better(f, idx, filtered) # {}}

\* f after the best replacement of the slot at idx is committed: the first
\* candidate of the highest objective value
BestCommitted(f, idx, filtered) ==
    LET cands == _search_slot_candidates(f, idx, args.query, args.candidate_limit)
        better == Better(f, idx, filtered)
        k == CHOOSE x \in better :
                 \A y \in better :
                    \/ ReplacementScore(f, idx, x) > ReplacementScore(f, idx, y)
                    \/ /\ ReplacementScore(f, idx, x) = ReplacementScore(f, idx, y)
                       /\ x <= y
    IN  Replaced(f, idx, cands[k]).fit

\* exactly one slot of the base fit has a strictly better replacement
\* candidate, and no slot has one once that replacement is committed
OneImprovement(filtered) ==
    LET slots == ImprovableSlots(heap[base_fit], filtered)
    IN  /\ Cardinality(slots) = 1
        /\ \A idx \in slots :
              ImprovableSlots(BestCommitted(heap[base_fit], idx, filtered),
                              filtered) = {}

OneImprovementResult ==
    /\ Len(Val(result).changes) = 1
    /\ Val(result).passes <= 2
    /\ Val(result).score > InitialScore

MaxSearchReturned ==
    /\ IsIter /\ pc = "done" /\ result # None
    /\ args.direction = "max" /\ args.max_passes >= 2

\* C11 as stated: with direction 'max' and max_passes >= 2, when exactly
\* one slot has a replacement candidate with a strictly higher objective
\* value and none has one after it is committed, the result has one
\* change-log entry, passes <= 2 and a final score above the initial one.
C11_Original == (MaxSearchReturned /\ OneImprovement(FALSE)) => OneImprovementResult

\* C11: the same, for replacement candidates that pass the validity filter:
\* with require_fit_valid set, a candidate whose snapshot is invalid does
\* not count as a replacement, however high its objective value.
C11_OneImprovement == (MaxSearchReturned /\ OneImprovement(TRUE)) => OneImprovementResult

\* such a search returned after the confirming pass, with passes to spare
C11_Witness ==
    /\ MaxSearchReturned /\ OneImprovement(TRUE)
    /\ args.max_passes > 2 /\ Val(result).passes = 2

MaximizeKeys ==
    {"dps", "dps_at_range", "ehp", "tank_total", "sustainable_tank_total",
     "max_speed"}

NowhereWorse(a, b) ==
    /\ \A k \in MaximizeKeys : a[k] >= b[k]
    /\ a.align_time <= b.align_time

SomewhereBetter(a, b) ==
    \/ \E k \in MaximizeKeys : a[k] > b[k]
    \/ a.align_time < b.align_time

\* C12: _dominates(a, b) is true exactly when a is at least as good as b
\* on each of the seven keys and strictly better on one; no vector
\* dominates itself or an equal one, and a and b never dominate each other.
C12_Dominates ==
    (args.mode = "_dominates" /\ pc = "done") =>
        /\ Val(result) = (NowhereWorse(args.a, args.b) /\ SomewhereBetter(args.a, args.b))
        /\ args.a = args.b => ~Val(result)
        /\ ~(Val(result) /\ _dominates(args.b, args.a))

\* a dominates b while equal to it on a maximize key, better on another
\* and better on the minimize key
C12_Witness ==
    /\ args.mode = "_dominates" /\ pc = "done" /\ Val(result)
    /\ args.a.dps > args.b.dps /\ args.a.ehp = args.b.ehp
    /\ args.a.align_time < args.b.align_time

\* the positions of S that no other position of S dominates
Undominated(S) ==
    {i \in DOMAIN S :
        ~\E j \in DOMAIN S : j # i /\ ScoreDominates(S[j].score, S[i].score)}

\* C13: _pareto_prune(S) returns the candidates of S that no other
\* candidate of S dominates, in their order in S; candidates of equal
\* score vectors survive or fall together; a non-empty S gives a
\* non-empty result.
C13_Prune ==
    (args.mode = "_pareto_prune" /\ pc = "done") =>
        LET S == args.candidates
            out == Val(result)
        IN  /\ Len(out) = Cardinality(Undominated(S))
            /\ \A i \in Undominated(S) :
                  out[Cardinality({j \in Undominated(S) : j <= i})] = S[i]
            /\ \A i, j \in DOMAIN S :
                  S[i].score = S[j].score =>
                      ((\E k \in DOMAIN out : out[k] = S[i])
                          <=> (\E k \in DOMAIN out : out[k] = S[j]))
            /\ S # << >> => out # << >>

\* a prune that dropped a candidate and kept two of equal score vectors
C13_Witness ==
    /\ args.mode = "_pareto_prune" /\ pc = "done"
    /\ Len(Val(result)) < Len(args.candidates)
    /\ \E i, j \in DOMAIN Val(result) :
          i # j /\ Val(result)[i].score = Val(result)[j].score

\* the resources the modules of a fit use: CPU and powergrid by the
\* modules that are online or above, calibration by every fitted module
Used(fit, k) ==
    LET on == {i \in DOMAIN fit.modules :
                  /\ ~isEmpty(fit.modules[i])
                  /\ (k = "cal" \/ fit.modules[i].state >= ONLINE)}
        total[S \in SUBSET on] ==
            IF S = {} THEN 0
            ELSE LET i == CHOOSE x \in S : TRUE
                 IN  ItemDB[fit.modules[i].item][k] + total[S \ {i}]
    IN  total[on]

OverCapacity(fit) ==
    \/ Used(fit, "cpu") > fit.ship.cpuOutput
    \/ Used(fit, "pg") > fit.ship.powerOutput
    \/ Used(fit, "cal") > fit.ship.upgradeCapacity

SnapshotCalled == args.mode = "_fit_snapshot" /\ pc \in {"done", "raised"}

\* C14: fit_valid is true exactly when the three headrooms (output minus
\* use of CPU, powergrid and calibration) are non-negative; a fit over
\* capacity is reported through fit_valid = false, and _fit_snapshot
\* raises only when the engine does.
C14_FitValid ==
    SnapshotCalled =>
        /\ pc = "raised" <=> EvalRaises(heap[base_fit])
        /\ pc = "done" =>
              LET snap == Val(result)
                  res == snap.resources
              IN  /\ res.cpu_headroom
                        = heap[base_fit].ship.cpuOutput - Used(heap[base_fit], "cpu")
                  /\ res.powergrid_headroom
                        = heap[base_fit].ship.powerOutput - Used(heap[base_fit], "pg")
                  /\ res.calibration_headroom
                        = heap[base_fit].ship.upgradeCapacity - Used(heap[base_fit], "cal")
                  /\ snap.fit_valid <=>
                        (res.cpu_headroom >= 0 /\ res.powergrid_headroom >= 0
                         /\ res.calibration_headroom >= 0)
                  /\ OverCapacity(heap[base_fit]) => ~snap.fit_valid

\* a snapshot returned for a fit over its calibration capacity alone
C14_Witness ==
    /\ SnapshotCalled /\ pc = "done" /\ ~Val(result).fit_valid
    /\ Val(result).resources.cpu_headroom >= 0
    /\ Val(result).resources.powergrid_headroom >= 0
    /\ Val(result).resources.calibration_headroom < 0

\* the fits a finished search returned
ReturnedFits ==
    IF pc # "done" \/ result = None THEN {}
    ELSE IF IsPareto THEN {heap[Val(result)[k].fit] : k \in DOMAIN Val(result)}
    ELSE IF IsIter THEN {heap[Val(result).fit]}
    ELSE {}

SameSlots(f, g) ==
    /\ Len(f.modules) = Len(g.modules)
    /\ \A i \in DOMAIN f.modules : f.modules[i].slot = g.modules[i].slot

SameItems(f, g) ==
    \A i \in DOMAIN f.modules :
        /\ f.modules[i].item = g.modules[i].item
        /\ f.modules[i].charge = g.modules[i].charge

\* C15: every fit a search returns has the base fit's number of slots and
\* the base fit's slot type at every index; every variant the beam search
\* returns holds the base fit's item (or emptiness) and charge at every
\* index.
C15_SlotsInvariant ==
    \A f \in ReturnedFits :
        /\ SameSlots(f, heap[base_fit])
        /\ IsPareto => SameItems(f, heap[base_fit])

\* the hill-climb returned a fit with a substituted module
C15_Witness ==
    /\ IsIter /\ pc = "done"
    /\ \E f \in ReturnedFits : ~SameItems(f, heap[base_fit])

\* the state of the module at i is valid for it, not above its maximum,
\* and within what the group limits of the fit permit
StatePermitted(mods, i) ==
    /\ isValidState(mods[i], mods[i].state)
    /\ mods[i].state <= getMaxState(mods[i], None)
    /\ canHaveState(mods, i, mods[i].state) = None

StatesPermitted(f) ==
    \A i \in DOMAIN f.modules :
        ~isEmpty(f.modules[i]) => StatePermitted(f.modules, i)

\* after an evaluation and in every returned fit the states are permitted
C16_Permitted ==
    /\ (args.mode = "_fit_snapshot" /\ pc \in {"done", "raised"}) =>
          StatesPermitted(heap[base_fit])
    /\ \A f \in ReturnedFits : StatesPermitted(f)

\* every fit object a step of a search makes or writes to is left with
\* permitted states
C16_Written ==
    (IsPareto \/ IsIter) =>
        \A r \in DOMAIN heap' :
            (r \notin DOMAIN heap \/ heap'[r] # heap[r])
                => StatesPermitted(heap'[r])

Evaluating == args.mode = "_fit_snapshot" /\ pc = "call"

\* an invalid state becomes the nearest valid one: the module's maximum
C16_ToNearest ==
    Evaluating =>
        \A i \in DOMAIN heap[base_fit].modules :
            LET mod == heap[base_fit].modules[i]
            IN  (~isEmpty(mod) /\ ~isValidState(mod, mod.state)) =>
                    heap'[base_fit].modules[i].state = getMaxState(mod, None)

C16_ToOnline ==
    Evaluating =>
        \A i \in DOMAIN heap[base_fit].modules :
            LET mods == heap[base_fit].modules
                after == heap'[base_fit].modules[i]
            IN  ~isEmpty(mods[i]) =>
                    /\ after.state # mods[i].state => after.state = ONLINE
                    /\ StatePermitted(mods, i) => after = mods[i]
                    /\ ~isValidState(mods[i], mods[i].state) => after.state = ONLINE
                    /\ after.item = mods[i].item /\ after.charge = mods[i].charge

FactorReturned == args.mode = "get_distance_factor" /\ pc = "done"

AppliedReturned == args.mode = "_calc_applied_dps" /\ pc = "done"

\* the distance of the call in metres, below zero counted as zero
Metres == IF Val(args.distance_km) < 0 THEN 0 ELSE Val(args.distance_km) * 1000

Clamp(lo, x, hi) == IF x < lo THEN lo ELSE IF x > hi THEN hi ELSE x

\* the fit with its missile-like modules taken out
WithoutMissiles(fit) ==
    [fit EXCEPT !.modules =
        [i \in DOMAIN @ |-> IF ~isEmpty(@[i]) /\ ItemDB[@[i].item].missile
                            THEN buildEmpty(@[i].slot) ELSE @[i]]]

\* C17: for a missile-like source and a distance d, the factor is 1.0 when
\* d <= lower, the hit chance clamped to [0, 1] when lower < d <= upper,
\* and 0.0 when d > upper; a source beyond its upper bound adds nothing to
\* the applied DPS.
C17_MissileBands ==
    /\ (FactorReturned /\ args.item.missile /\ args.distance_km # None) =>
          Val(result) = IF Metres <= args.item.lower THEN 1000
                        ELSE IF Metres <= args.item.upper
                        THEN Clamp(0, args.item.chance, 1000)
                        ELSE 0
    /\ (AppliedReturned /\ args.distance_km # None
        /\ \A i \in DOMAIN args.fit.modules :
              (~isEmpty(args.fit.modules[i])
               /\ ItemDB[args.fit.modules[i].item].missile)
                  => Metres > ItemDB[args.fit.modules[i].item].upper) =>
          Val(result) = _calc_applied_dps(WithoutMissiles(args.fit),
                                          args.distance_km, args.target_resists)

\* the factor of a missile-like source beyond its upper bound, whose hit
\* chance is not zero
C17_Witness ==
    /\ FactorReturned /\ args.item.missile /\ args.distance_km # None
    /\ Metres > args.item.upper /\ args.item.chance > 0
    /\ Val(result) = 0

\* the four resistances used: the vector cut or padded with zeros to four,
\* each value clamped to [0, 99] percent
Resist4 ==
    [i \in 1..4 |-> IF i <= Len(args.target_resists)
                    THEN Clamp(0, args.target_resists[i], 99) ELSE 0]

\* the range-adjusted sum of the call, in thousandths
RangeAdjusted == ranged_dps_of(args.fit, distance_m_of(args.distance_km))

\* C18: the applied DPS is the range-adjusted sum times 1 minus the mean of
\* four resistances (the vector truncated, zero-padded, each value clamped
\* to [0, 0.99]); (0.5, 0.5, 0.5, 0.5) gives half of what (0, 0, 0, 0)
\* gives; the applied DPS is never negative and never above the sum.
C18_Resists ==
    AppliedReturned =>
        /\ Val(result) = RangeAdjusted
                         * (400 - (Resist4[1] + Resist4[2] + Resist4[3] + Resist4[4]))
        /\ args.target_resists = <<50, 50, 50, 50>> =>
              2 * Val(result) = _calc_applied_dps(args.fit, args.distance_km,
                                                  <<0, 0, 0, 0>>)
        /\ Val(result) >= 0
        /\ Val(result) <= 400 * RangeAdjusted

\* a call with five resistances, one below zero and the others above 0.99,
\* on a fit that deals damage
C18_Witness ==
    /\ AppliedReturned /\ Val(result) > 0
    /\ Len(args.target_resists) = 5
    /\ \E i \in 1..4 : args.target_resists[i] < 0
    /\ \E i \in 1..4 : args.target_resists[i] > 99

\* the raw DPS of the active damage-dealing sources of a fit
RawActiveDps(fit) ==
    LET mods == {i \in DOMAIN fit.modules :
                    /\ ~isEmpty(fit.modules[i])
                    /\ fit.modules[i].state >= ACTIVE
                    /\ ModDps(fit.modules[i]) > 0}
        modsum[S \in SUBSET mods] ==
            IF S = {} THEN 0
            ELSE LET i == CHOOSE x \in S : TRUE
                 IN  ModDps(fit.modules[i]) + modsum[S \ {i}]
        drones == IF fit.drones # << >> /\ fit.drones[1].active
                  THEN DroneDps(fit.drones[1]) ELSE 0
        fighters == IF fit.fighters # << >> /\ fit.fighters[1].active
                    THEN FighterDps(fit.fighters[1]) ELSE 0
    IN  modsum[mods] + drones + fighters

\* C19: at a null distance the factor is 1.0 for every source, so the
\* applied DPS is the raw DPS of the active damage-dealing modules, drones
\* and fighters times the resistance factor; the other sources add
\* nothing.
C19_NullDistance ==
    /\ (FactorReturned /\ args.distance_km = None) => Val(result) = 1000
    /\ (AppliedReturned /\ args.distance_km = None) =>
          Val(result) = 1000 * RawActiveDps(args.fit)
                        * (400 - (Resist4[1] + Resist4[2] + Resist4[3] + Resist4[4]))

\* a null-distance call on a fit with an active turret, an offline one, an
\* active drone and an active fighter
C19_Witness ==
    /\ AppliedReturned /\ args.distance_km = None /\ Val(result) > 0
    /\ \E i, j \in DOMAIN args.fit.modules :
          /\ args.fit.modules[i].item = 1 /\ args.fit.modules[i].state = ACTIVE
          /\ args.fit.modules[j].item = 2 /\ args.fit.modules[j].state = OFFLINE
    /\ args.fit.drones # << >> /\ args.fit.drones[1].active
    /\ args.fit.fighters # << >> /\ args.fit.fighters[1].active

\* a range attribute, 0 when the source has none
Attr(v) == IF v = None THEN 0 ELSE v[1]

\* C20: for a turret-like source the factor is the engine's falloff
\* function of (optimal, falloff, distance) clamped to [0, 1], with missing
\* range data taken as 0 and a negative distance as 0; at distance 0 a
\* source with a positive optimal range has factor 1.0.
C20_TurretFalloff ==
    (FactorReturned /\ ~args.item.missile /\ args.distance_km # None) =>
        /\ Val(result) =
              Clamp(0, calculateRangeFactor(Attr(args.item.maxRange),
                                            Attr(args.item.falloff), Metres), 1000)
        /\ (Metres = 0 /\ Attr(args.item.maxRange) > 0) => Val(result) = 1000

\* the factor of a source without range data at a positive distance
C20_Witness ==
    /\ FactorReturned /\ ~args.item.missile /\ args.distance_km # None
    /\ args.item.maxRange = None /\ args.item.falloff = None
    /\ Metres > 0 /\ Val(result) = 0

EvaluatedTwice == args.mode = "_fit_snapshot" /\ pc = "done_again"

\* C21: two evaluations in a row of the same fit with the same distance
\* and resistances, with no change of composition in between, give the
\* same score vector, although the first one normalizes the module states.
C21_SameScores ==
    EvaluatedTwice =>
        _score_from_snapshot(result[1]) = _score_from_snapshot(result[2])

\* two evaluations of a fit whose states the first one changed, and whose
\* score is not that of a fit without modules
C21_Witness ==
    /\ EvaluatedTwice
    /\ heap[base_fit].modules # args.fit.modules
    /\ result[1].dps > 0

\* the states a slot step tries for the module at pos of a frontier member
NewStates(parent, pos) ==
    LET mod == heap[parent].modules[pos]
    IN  {st \in FittingModuleState :
            /\ st <= getMaxState(mod, None)
            /\ isValidState(mod, st)
            /\ st # mod.state}

\* the (frontier member, state) pairs of the slot step at pos
ExpansionPairs(pos) ==
    {p \in (DOMAIN frontier) \X FittingModuleState :
        p[2] \in NewStates(frontier[p[1]].fit, pos)}

\* the place of a pair's candidate in the list: after the frontier, by
\* frontier member and then by state
PlaceOf(p, pos) ==
    Len(frontier) + 1
    + Cardinality({q \in ExpansionPairs(pos) :
                      q[1] < p[1] \/ (q[1] = p[1] /\ q[2] < p[2])})

\* the candidate cand of the heap h is the parent's copy with state st at
\* pos, evaluated
IsVariant(cand, h, parent, pos, st) ==
    /\ cand.fit \notin DOMAIN heap
    /\ h[cand.fit] = _normalize_states([heap[parent] EXCEPT !.modules[pos].state = st])
    /\ cand.snapshot = Snapshot(h[cand.fit], args.range_km, args.target_resists)
    /\ cand.score = _score_from_snapshot(cand.snapshot)

\* the positions of a slot step are the occupied slots of the base fit in
\* ascending order
AscendingOccupied ==
    /\ \A i, j \in DOMAIN module_positions :
          i < j => module_positions[i] < module_positions[j]
    /\ {module_positions[i] : i \in DOMAIN module_positions}
          = {i \in DOMAIN heap[base_fit].modules : ~isEmpty(heap[base_fit].modules[i])}

\* C22: at each occupied slot of the base fit, in ascending order, the
\* list that is filtered and pruned is the whole previous frontier plus
\* exactly one new candidate for every pair (frontier member, state s)
\* with s at most the module's maximum permitted state, valid for the
\* module and not its current state; each new candidate is a deep copy of
\* its parent in which only the state at that slot was set to s before
\* the evaluation.
C22_Expansion ==
    [][pc = "pareto_expand" =>
          LET pos == module_positions[pos_i]
              pairs == ExpansionPairs(pos)
          IN  /\ AscendingOccupied
              /\ Len(expanded') = Len(frontier) + Cardinality(pairs)
              /\ SubSeq(expanded', 1, Len(frontier)) = frontier
              /\ \A p \in pairs :
                    IsVariant(expanded'[PlaceOf(p, pos)], heap',
                              frontier[p[1]].fit, pos, p[2])
              /\ \A i, j \in DOMAIN expanded' :
                    i # j => expanded'[i].fit # expanded'[j].fit
              /\ \A r \in DOMAIN heap : heap'[r] = heap[r]]_vars

\* the second slot step expanded a frontier of two members or more
C22_Witness ==
    /\ IsPareto /\ pc = "pareto_filter" /\ pos_i = 2
    /\ Len(frontier) >= 2
    /\ Len(expanded) >= Len(frontier) + 3

\* a comes before b in the order of the beam: dps_at_range descending,
\* then ehp, sustainable_tank_total and max_speed descending, then
\* align_time ascending
Precedes(a, b) ==
    \/ a.dps_at_range > b.dps_at_range
    \/ /\ a.dps_at_range = b.dps_at_range
       /\ \/ a.ehp > b.ehp
          \/ /\ a.ehp = b.ehp
             /\ \/ a.sustainable_tank_total > b.sustainable_tank_total
                \/ /\ a.sustainable_tank_total = b.sustainable_tank_total
                   /\ \/ a.max_speed > b.max_speed
                      \/ /\ a.max_speed = b.max_speed
                         /\ a.align_time < b.align_time

FitsOf(cands) == {cands[i].fit : i \in DOMAIN cands}

\* C23: after the prune of a slot step the survivors are ordered by
\* dps_at_range descending, then ehp, sustainable_tank_total and max_speed
\* descending, then align_time ascending, and the first beam_width are
\* kept: the kept ones are survivors, in that order, and no survivor that
\* was dropped precedes a kept one.
C23_BeamOrder ==
    [][pc = "pareto_sort" =>
          /\ \A i \in DOMAIN frontier' :
                \E k \in DOMAIN frontier : frontier[k] = frontier'[i]
          /\ \A i, j \in DOMAIN frontier' :
                i < j => /\ frontier'[i].fit # frontier'[j].fit
                         /\ ~Precedes(frontier'[j].score, frontier'[i].score)
          /\ \A d \in DOMAIN frontier, k \in DOMAIN frontier' :
                frontier[d].fit \notin FitsOf(frontier')
                    => ~Precedes(frontier[d].score, frontier'[k].score)
          /\ args.beam_width >= 0 =>
                Len(frontier') = Min(args.beam_width, Len(frontier))]_vars

\* a slot step left more survivors than the beam is wide: two were kept,
\* out of the order the prune gave them, and one was dropped
C23_Witness ==
    /\ IsPareto /\ pos_i > 1 /\ pc \in {"pareto_expand", "pareto_final"}
    /\ args.beam_width = 2 /\ Len(frontier) = 2
    /\ Len(_pareto_prune(expanded)) > 2
    /\ Precedes(frontier[1].score, frontier[2].score)
    /\ SliceTo(_pareto_prune(expanded), 2) # frontier

SearchReturned == args.mode = "_search_slot_candidates" /\ pc = "done"

\* the module of the slot that was searched
Current == args.fit.modules[args.slot_index]

\* the items the variation lookup finds for the current item, and the
\* items the text query finds
FoundAsVariation ==
    IF isEmpty(Current) THEN {}
    ELSE {x \in Items : /\ ItemDB[Current.item].family # 0
                        /\ ItemDB[x].family = ItemDB[Current.item].family}

FoundByQuery ==
    IF args.query = None THEN {} ELSE {x \in Items : ItemDB[x].matchesQuery}

\* C24: the list _search_slot_candidates returns has no item twice, every
\* item's slot classification is the target slot's type, every item found
\* as a variation of the current item precedes every item found through
\* the text query only, and it has at most limit items: the first limit
\* items in discovery order.
C24_Candidates ==
    SearchReturned =>
        LET r == Val(result)
            all == _search_slot_candidates(args.fit, args.slot_index,
                                           args.query, Len(ItemDB))
        IN  /\ \A i, j \in DOMAIN r : i # j => r[i] # r[j]
            /\ \A i \in DOMAIN r : ItemDB[r[i]].slot = Current.slot
            /\ \A i, j \in DOMAIN r :
                  (r[i] \in FoundAsVariation /\ r[j] \notin FoundAsVariation
                   /\ r[j] \in FoundByQuery) => i < j
            /\ Len(r) <= Max(0, args.limit)
            /\ Len(r) = Min(Max(0, args.limit), Len(all))
            /\ r = SubSeq(all, 1, Len(r))

\* a list of variations followed by an item the query found, the query
\* having found an item of another slot type too
C24_Witness ==
    /\ SearchReturned /\ Len(Val(result)) = 3
    /\ Val(result)[1] \in FoundAsVariation
    /\ Val(result)[3] \in FoundByQuery \ FoundAsVariation
    /\ \E x \in FoundByQuery : ItemDB[x].slot # Current.slot

\* neither lookup gave a candidate for the slot
NothingFound ==
    \A x \in FoundAsVariation \cup FoundByQuery : ItemDB[x].slot # Current.slot

\* C25 as stated: when the slot is occupied and neither the variation
\* lookup nor the text query gave a candidate, the current item is added,
\* and the list returned for an occupied slot is never empty.
C25_Original ==
    (SearchReturned /\ ~isEmpty(Current)) =>
        /\ NothingFound => Val(result) = << Current.item >>
        /\ Val(result) # << >>

\* C25: when the slot is occupied, the limit is 1 or more and neither the
\* variation lookup nor the text query gave a candidate, the list is the
\* current item alone; for an occupied slot and a limit of 1 or more the
\* list is never empty, and for a limit of 0 or less it is empty.
C25_Fallback ==
    (SearchReturned /\ ~isEmpty(Current)) =>
        IF args.limit >= 1
        THEN /\ NothingFound => Val(result) = << Current.item >>
             /\ Val(result) # << >>
        ELSE Val(result) = << >>

\* the search, without a query, of a slot that holds an item without
\* variations
C25_Witness ==
    /\ SearchReturned /\ ~isEmpty(Current) /\ args.limit >= 1
    /\ FoundAsVariation = {} /\ NothingFound
    /\ Val(result) = << Current.item >>

\* the trials of the slot that were not skipped
Scored == {k \in DOMAIN trials : trials[k].outcome = "scored"}

\* the snapshot and the objective value of the fit a trial built
TrialSnapshot(k) ==
    Snapshot(heap[trials[k].fit], args.range_km, args.target_resists)

TrialScore(k) == _objective_value(TrialSnapshot(k), args.objective).value

\* the best of the trials that were not skipped, the first one on ties
BestTrial ==
    CHOOSE k \in Scored :
        \A j \in Scored :
            /\ j < k => StrictlyBetter(TrialScore(k), TrialScore(j))
            /\ j > k => ~StrictlyBetter(TrialScore(j), TrialScore(k))

\* a candidate of the current module's display name is not tried: no trial
\* fit is made for it, and one is made for every other candidate
C26_NeverTried ==
    (IsIter /\ pc = "iter_trial") =>
        \A k \in DOMAIN trials :
            LET same == ItemDB[trials[k].item].typeName
                        = ItemDB[heap[working_fit].modules[slot_index].item].typeName
            IN  /\ same <=> trials[k].fit = 0
                /\ same => k \notin Scored
                /\ ~same => trials[k].fit \in DOMAIN heap \ {base_fit, working_fit}

\* the step after the last trial of a slot commits the best trial when it
\* is strictly better than the current score, and nothing otherwise
C26_CommitStep ==
    AtCommit =>
        IF Scored # {} /\ StrictlyBetter(TrialScore(BestTrial), current.score)
        THEN /\ heap'[working_fit].modules[slot_index].item = trials[BestTrial].item
             /\ \A i \in DOMAIN heap[working_fit].modules :
                   i # slot_index => heap'[working_fit].modules[i]
                                     = heap[working_fit].modules[i]
             /\ current' = [snapshot |-> TrialSnapshot(BestTrial),
                            score |-> TrialScore(BestTrial)]
             /\ Len(history') = Len(history) + 1
             /\ SubSeq(history', 1, Len(history)) = history
             /\ history'[Len(history')].score = TrialScore(BestTrial)
             /\ history'[Len(history')].module_name
                   = ItemDB[trials[BestTrial].item].typeName
             /\ history'[Len(history')].slot_index = slot_index
        ELSE /\ heap'[working_fit] = heap[working_fit]
             /\ current' = current
             /\ history' = history

\* C26: the substitution committed for a slot is the trial with the best
\* objective value among the trials of the slot that were not skipped
\* (highest for max, lowest for min, the first found on ties); a candidate
\* with the current module's display name is never tried; the commit
\* happens only when the best value is strictly better than the current
\* score, and otherwise the working fit, the current score and the change
\* log stay as they were.
C26_BestTrialCommitted == []C26_NeverTried /\ [][C26_CommitStep]_vars

\* a commit after two trials of the same, best value
C26_Witness ==
    /\ IsIter /\ pc = "iter_slot" /\ history # << >>
    /\ history[Len(history)].pass = passes
    /\ history[Len(history)].slot_index = slot_index - 1
    /\ \E j, k \in Scored :
          /\ j < k
          /\ TrialScore(j) = history[Len(history)].score
          /\ TrialScore(k) = history[Len(history)].score
          /\ ItemDB[trials[j].item].typeName = history[Len(history)].module_name

\* the call returned or raised
IterEnded == pc \in {"done", "raised"}

\* the passes counter counts the rounds: it starts at 0, goes up by one
\* when a round begins and at no other step
C27_CountsRounds ==
    IsIter =>
        /\ (pc = "iter_while" /\ pc' = "iter_slot") <=> passes' = passes + 1
        /\ passes' # passes => (passes' = passes + 1 /\ slot_index' = 1)
        /\ pc = "iter_setup" => passes' = 0

\* the rounds executed and the change log
C27_Passes ==
    IterRunning =>
        /\ passes <= Max(0, args.max_passes)
        /\ \A k \in DOMAIN history : history[k].pass \in 1..passes
        /\ result # None =>
              /\ Val(result).passes = passes
              /\ Val(result).changes = history
              /\ args.max_passes <= 0 =>
                    (Val(result).passes = 0 /\ Val(result).changes = << >>)
              /\ \A p \in 1..(Val(result).passes - 1) :
                    \E k \in DOMAIN Val(result).changes :
                        Val(result).changes[k].pass = p

\* C27: _iterative_optimize_fit always terminates, and the passes count it
\* returns is the number of rounds executed: at most max_passes, 0 with an
\* empty change log when max_passes <= 0, and every round but possibly the
\* last has an entry of the change log with its pass number.
C27_TerminatesCounted ==
    <>IterEnded /\ []C27_Passes /\ [][C27_CountsRounds]_vars

\* a search that returned after two rounds: the first committed a
\* substitution, the last one none
C27_Witness ==
    /\ IsIter /\ result # None
    /\ Val(result).passes >= 2 /\ Val(result).changes # << >>
    /\ \A k \in DOMAIN history : history[k].pass < Val(result).passes

\* the errors _replace_module_in_fit raises for its arguments
ValidationErrors ==
    { Some("slot_index is out of bounds"), Some("unknown module"),
      Some("module slot does not match target slot"),
      Some("module cannot be fitted in this slot on current hull"),
      Some("unknown charge"), Some("charge is invalid for this module"),
      Some("requested module state is invalid") }

\* fit_apply_slot_candidate was rejected with a validation error
Rejected ==
    /\ args.mode = "fit_apply_slot_candidate"
    /\ pc = "raised" /\ error \in ValidationErrors

\* C28: when _replace_module_in_fit raises a validation error, the slot at
\* slot_index holds the same module as before the call, so a rejected
\* fit_apply_slot_candidate leaves the session fit unchanged.
C28_SlotKept == Rejected => heap[base_fit] = args.fit

\* a beam search that asks for valid fits and keeps a candidate
ValidBeam == IsPareto /\ args.require_fit_valid /\ args.beam_width >= 1

\* a slot step has just ended
SlotStepEnded == pos_i > 1 /\ pc \in {"pareto_expand", "pareto_final"}

\* the frontier a slot step left holds a valid candidate
ValidInFrontier == ValidBeam /\ SlotStepEnded /\ ValidFits(frontier) # {}

\* a valid candidate has been produced: the candidate of the base fit,
\* or one of the candidates of an expansion
ValidProduced ==
    /\ ValidBeam
    /\ \/ pc = "pareto_expand" /\ pos_i = 1 /\ ValidFits(frontier) # {}
       \/ pc = "pareto_final" /\ pos_i = 1 /\ ValidFits(frontier) # {}
       \/ pc = "pareto_filter" /\ ValidFits(expanded) # {}

AllValid(cands) == \A k \in DOMAIN cands : cands[k].snapshot.fit_valid

\* the frontier after a slot step and the returned list hold valid
\* candidates only
OnlyValidKept ==
    /\ SlotStepEnded => AllValid(frontier)
    /\ (pc = "done" /\ result # None) => AllValid(Val(result))

\* C29: in _optimize_fit_pareto with require_fit_valid and beam_width >= 1,
\* once the frontier after a slot step holds a valid candidate, the
\* frontier after every later slot step and the returned list hold valid
\* candidates only; and once any valid candidate has been produced, no
\* invalid candidate is returned.
C29_ValidStays ==
    /\ [](ValidInFrontier => []OnlyValidKept)
    /\ [](ValidProduced => []((pc = "done" /\ result # None)
                                  => AllValid(Val(result))))

\* a search that evaluated an invalid candidate returned valid candidates
\* only
C29_Witness ==
    /\ ValidBeam /\ pc = "done" /\ result # None /\ Val(result) # << >>
    /\ AllValid(Val(result))
    /\ \E r \in DOMAIN heap \ { base_fit } :
          ~Snapshot(heap[r], args.range_km, args.target_resists).fit_valid

\* the item of the catalogue with the name n
ItemNamed(n) == CHOOSE i \in Items : ItemDB[i].typeName = n

RECURSIVE Substituted(_, _, _)
\* the items of a module list after the substitutions of the change log
\* from entry k on, in log order
Substituted(items, log, k) ==
    IF k > Len(log) THEN items
    ELSE Substituted([items EXCEPT ![log[k].slot_index] =
                         ItemNamed(log[k].module_name)], log, k + 1)

ItemsOf(fit) == [i \in DOMAIN fit.modules |-> fit.modules[i].item]

\* _iterative_optimize_fit returned
IterReturned == IsIter /\ pc = "done" /\ result # None

\* C30: the result of _iterative_optimize_fit is self-consistent: the
\* returned score is the objective value of the returned snapshot; it is
\* the score of the last entry of the change log, or the initial score
\* when the log is empty; the returned fit is the base fit with exactly the
\* logged substitutions applied in log order; and evaluating the returned
\* fit again gives the returned snapshot.
C30_SelfConsistent ==
    IterReturned =>
        LET res == Val(result)
            again == _fit_snapshot(heap, res.fit, args.range_km,
                                   args.target_resists)
        IN  /\ res.score = _objective_value(res.snapshot, args.objective).value
            /\ res.score = IF res.changes # << >>
                           THEN res.changes[Len(res.changes)].score
                           ELSE InitialScore
            /\ ItemsOf(heap[res.fit]) =
                  Substituted(ItemsOf(heap[base_fit]), res.changes, 1)
            /\ ~again.raised
            /\ again.snapshot = res.snapshot

=============================================================================
